---- MODULE Spec2Model ----
(***************************************************************************)
(* Model of the chat server's tool-call orchestration (POST /api/chat).    *)
(*                                                                         *)
(* The repository holds the same orchestrator in two builds:               *)
(*   "chatController" : chatController.js with the executors of            *)
(*                      toolHandlers.js (unnamed/part_001, lines 299-469)  *)
(*   "server"         : server.js, orchestrator and executors inline       *)
(* The build is fixed when the process starts (variable variant).          *)
(*                                                                         *)
(* handleChatRequest is an async function: it runs without interruption    *)
(* from one external call to the next.  Each action below is one such      *)
(* run: from the arrival of the request, or of an external call's outcome, *)
(* up to the next external call or the HTTP response.  An await on an      *)
(* executor that returns without having issued an external call resumes    *)
(* in the same microtask drain, so it is not a point where another         *)
(* request's handler can run.                                              *)
(***************************************************************************)
EXTENDS Integers, Sequences, FiniteSets, TLC

\* ------------------------------------------------------------- bounds
NReq == 2        \* request slots (requests that may overlap)
MaxCalls == 2    \* tool invocations in one model response
MaxImg == 2      \* distinct image payloads the image API can return
MaxId == 2       \* distinct response identifiers the model API can return
MaxOverlapCalls == 3  \* tool invocations in flight when requests overlap

\* ------------------------------------------------------------- values
Null == 0        \* JavaScript null / undefined / "" (all falsy)

Reqs == 1..NReq
Images == 1..MaxImg
Ids == 1..MaxId
Variants == {"chatController", "server"}

ToolNames == {"generate_image", "edit_image", "analyze_image", "other_tool"}

\* message.content[..].text of a model response: absent, empty or a sentence
Undefined == "undefined"
ModelTexts == {Undefined, "", "assistant text"}

VARIABLES
    variant,                  \* which build runs
    history,                  \* the turn-start history variables are kept
    apiKey,                   \* process.env.OPENAI_API_KEY is set
    lastResponseId,           \* module state (lastTurnId)
    lastGeneratedImageBase64, \* module state (lastImage)
    pc,                       \* per request: where the handler is suspended
    toolCalls,                \* per request: function_call items of the first response
    idx,                      \* per request: position of the for..of loop
    conversationInput,        \* per request: input accumulated for the second call
    finalImageBase64,         \* per request
    currentResponseId,        \* per request: id of the first response
    res,                      \* per request: the HTTP response sent
    startResponseId,          \* history: lastResponseId when the turn began
    startImage,               \* history: lastGeneratedImageBase64 when the turn began
    execLog,                  \* history: the executors run in this turn, in order
    modelCalls,               \* history: model completion calls issued in this turn
    firstText,                \* history: assistant text of the first response
    secondText,               \* history: assistant text of the second response
    message,                  \* per request: req.body.message ("" when absent)
    previous_response_id,     \* per request: previous_response_id of the first call
    finalResponseId,          \* per request: id of the second response
    lastReturnedImage,        \* history: image of the latest executor call that returned one
    imageWriter,              \* history: request that last wrote lastGeneratedImageBase64
    idWriter,                 \* history: request that last wrote lastResponseId
    secondToolCalls           \* per request: function_call items of the second response

vars == <<variant, history, apiKey, lastResponseId, lastGeneratedImageBase64, pc, toolCalls, idx,
          conversationInput, finalImageBase64, currentResponseId, res,
          startResponseId, startImage, execLog, modelCalls, firstText, secondText,
          message, previous_response_id, finalResponseId, lastReturnedImage,
          imageWriter, idWriter, secondToolCalls>>

\* ------------------------------------------------- external capabilities
\* Outcome of openai.images.generate / openai.images.edit:
\*   "error"      the call rejects (network, quota, bad prompt)
\*   "no_data"    it resolves with an empty data array: data[0] is undefined
\*   "no_payload" data[0] carries neither b64_json nor url
\*   "url_only"   data[0] carries a url but no b64_json
\*   "image"      data[0].b64_json is the image
ImageOutcomes ==
    [kind : {"error", "no_data", "no_payload", "url_only"}, image : {Null}]
        \cup [kind : {"image"}, image : Images]

\* Outcome of the vision call: it rejects, answers with text, or answers
\* with no text content.
VisionOutcomes == [kind : {"error", "text", "no_text"}, image : {Null}]

ToolOutcomes(name) ==
    IF name = "analyze_image" THEN VisionOutcomes ELSE ImageOutcomes

\* What an executor hands back: { result, imageBase64 }, or an exception
\* that leaves the executor (threw).
Result(text, image) == [result |-> text, imageBase64 |-> image, threw |-> FALSE]
Throws == [result |-> "TypeError", imageBase64 |-> Null, threw |-> TRUE]

\* ------------------------------------------ executors of toolHandlers.js
\* args.prompt is evaluated inside the try block while the request object
\* is built: with args = null the TypeError is caught before any call.
toolHandlers_handleGenerateImage(args, outcome) ==
    IF args = "null" \/ outcome.kind \in {"error", "no_data"}
    THEN Result("Error generating image: <message>", Null)
    ELSE IF outcome.kind = "url_only"
    THEN Result("Image generated, but only URL available: <url>", Null)
    ELSE Result("Image generated successfully.", outcome.image)

toolHandlers_handleEditImage(args, currentImageBase64, outcome) ==
    IF currentImageBase64 = Null
    THEN Result("Error: No image available to edit. Please generate one first.", Null)
    ELSE IF args = "null" \/ outcome.kind \in {"error", "no_data"}
    THEN Result("Error editing image: <message>", Null)
    ELSE Result("Image edited successfully.", outcome.image)

toolHandlers_handleAnalyzeImage(args, currentImageBase64, outcome) ==
    IF currentImageBase64 = Null
    THEN Result("Error: No image available to analyze. Please generate or edit one first.", Null)
    ELSE IF args = "null" \/ outcome.kind = "error"
    THEN Result("Error analyzing image: <message>", Null)
    ELSE IF outcome.kind = "no_text"
    THEN Result("Could not analyze the image.", Null)
    ELSE Result("<analysis>", Null)

\* ---------------------------------------------- executors of server.js
server_handleGenerateImage(args, outcome) ==
    IF args = "null" \/ outcome.kind \in {"error", "no_data"}
    THEN Result("Error generating image.", Null)
    ELSE Result("Image generated successfully.", outcome.image)

server_handleEditImage(args, currentImageBase64, outcome) ==
    IF currentImageBase64 = Null
    THEN Result("No image available to edit.", Null)
    ELSE IF args = "null" \/ outcome.kind \in {"error", "no_data"}
    THEN Result("Error editing image: <message>", Null)
    ELSE Result("Image edited successfully.", outcome.image)

\* visionInput is built from args.question before the try block: with
\* args = null the TypeError leaves the executor.
server_handleAnalyzeImage(args, currentImageBase64, outcome) ==
    IF currentImageBase64 = Null
    THEN Result("No image available to analyze.", Null)
    ELSE IF args = "null"
    THEN Throws
    ELSE IF outcome.kind = "error"
    THEN Result("Error analyzing image: <message>", Null)
    ELSE IF outcome.kind = "no_text"
    THEN Result("Could not analyze the image.", Null)
    ELSE Result("<analysis>", Null)

\* The executor the build binds to each name.
handleGenerateImage(v, args, outcome) ==
    IF v = "server" THEN server_handleGenerateImage(args, outcome)
    ELSE toolHandlers_handleGenerateImage(args, outcome)

handleEditImage(v, args, currentImageBase64, outcome) ==
    IF v = "server" THEN server_handleEditImage(args, currentImageBase64, outcome)
    ELSE toolHandlers_handleEditImage(args, currentImageBase64, outcome)

handleAnalyzeImage(v, args, currentImageBase64, outcome) ==
    IF v = "server" THEN server_handleAnalyzeImage(args, currentImageBase64, outcome)
    ELSE toolHandlers_handleAnalyzeImage(args, currentImageBase64, outcome)

\* Mutation: the guard on the stored image is missing.
IssuesCall_IgnoresImage(name, args, currentImageBase64) ==
    /\ name \in {"generate_image", "edit_image", "analyze_image"}
    /\ args # "null"

\* Mutation: generate_image answers without calling the image API.
IssuesCall_GenerateSkipsCall(name, args, currentImageBase64) ==
    /\ name \in {"edit_image", "analyze_image"}
    /\ args # "null"
    /\ currentImageBase64 # Null

\* Whether the executor gets as far as its external call (in every executor
\* of both builds the call is the first await after the guards).
IssuesCall(name, args, currentImageBase64) ==
    /\ name \in {"generate_image", "edit_image", "analyze_image"}
    /\ args # "null"
    /\ name = "generate_image" \/ currentImageBase64 # Null

\* The outcome handed to an executor that never reaches its call.
NoCall == [kind |-> "error", image |-> Null]

\* ------------------------------------------------------- orchestrator
\* One function_call item of a model response.  call_id is unique within
\* the response: the item's position.
ToolCall(i, name, arguments) == [call_id |-> i, name |-> name, arguments |-> arguments]

\* toolCall.arguments, by what JSON.parse makes of it:
\*   "object"    a JSON object (with or without the expected field: a missing
\*               field reads as undefined and is forwarded to the API as is)
\*   "null"      the JSON text null, which parses to null
\*   "malformed" not JSON: JSON.parse throws
\* The (name, arguments) pairs a function_call item is drawn from.  An
\* unknown tool never looks at its arguments and a malformed argument string
\* never reaches an executor, so "null" is paired with the three image tools
\* and "malformed" with one image tool and with the unknown tool.
ToolCallKinds ==
    [name : ToolNames, arguments : {"object"}]
        \cup [name : ToolNames \ {"other_tool"}, arguments : {"null"}]
        \cup [name : {"generate_image", "other_tool"}, arguments : {"malformed"}]

\* The kinds drawn from when requests overlap: well-formed invocations of
\* the three image tools.
ImageCallKinds == [name : ToolNames \ {"other_tool"}, arguments : {"object"}]

RECURSIVE CallLists(_, _)
\* the lists of n pairs of kinds
CallLists(kinds, n) ==
    IF n = 0 THEN {<<>>}
    ELSE {Append(l, k) : l \in CallLists(kinds, n - 1), k \in kinds}

\* response.output filtered to its function_call items: up to MaxCalls of them
ToolCallListsOf(kinds) ==
    {[i \in 1..Len(l) |-> ToolCall(i, l[i].name, l[i].arguments)] :
        l \in UNION {CallLists(kinds, n) : n \in 0..MaxCalls}}

ToolCallLists == ToolCallListsOf(ToolCallKinds)
ImageToolCallLists == ToolCallListsOf(ImageCallKinds)

\* Entries of conversationInput.
UserEntry == [type |-> "user", call_id |-> 0, name |-> "", arguments |-> "", output |-> ""]
CallEntry(toolCall) ==
    [type |-> "function_call", call_id |-> toolCall.call_id, name |-> toolCall.name,
     arguments |-> toolCall.arguments, output |-> ""]

\* Mutation: the result entry does not carry the invocation's call_id.
OutputEntry_NoCallId(toolCall, text) ==
    [type |-> "function_call_output", call_id |-> 0, name |-> "",
     arguments |-> "", output |-> text]

OutputEntry(toolCall, text) ==
    [type |-> "function_call_output", call_id |-> toolCall.call_id, name |-> "",
     arguments |-> "", output |-> text]

\* Mutation: the parse failure goes unnoticed.
ParseThrows_Never(arguments) == FALSE

\* JSON.parse(toolCall.arguments) throws
ParseThrows(arguments) == arguments = "malformed"

ParseErrorText(v) ==
    IF v = "server" THEN "Error parsing arguments: <message>"
    ELSE "Error: Invalid arguments format for <name>."

\* Mutation: the switch has no default branch that reports an unknown tool.
Dispatch_NoDefault(v, functionName, functionArgs, lastImage, outcome) ==
    CASE functionName = "generate_image" -> handleGenerateImage(v, functionArgs, outcome)
      [] functionName = "edit_image" -> handleEditImage(v, functionArgs, lastImage, outcome)
      [] functionName = "analyze_image" -> handleAnalyzeImage(v, functionArgs, lastImage, outcome)
      [] OTHER -> Throws

\* The switch on functionName: the executor's result once its external
\* call (if it issued one) has come back with outcome.
Dispatch(v, functionName, functionArgs, lastImage, outcome) ==
    CASE functionName = "generate_image" -> handleGenerateImage(v, functionArgs, outcome)
      [] functionName = "edit_image" -> handleEditImage(v, functionArgs, lastImage, outcome)
      [] functionName = "analyze_image" -> handleAnalyzeImage(v, functionArgs, lastImage, outcome)
      [] OTHER -> Result("Unknown tool: <name>", Null)

\* The image handed to the executor as currentImageBase64.
CurrentImageArg(functionName, lastImage) ==
    IF functionName \in {"edit_image", "analyze_image"} THEN lastImage ELSE Null

\* An executor was run for this invocation.
LogEntry(toolCall, lastImage, called) ==
    [call_id |-> toolCall.call_id, name |-> toolCall.name,
     currentImage |-> CurrentImageArg(toolCall.name, lastImage), api |-> called,
     produced |-> Null]

\* The executor's entry gets the image it returned.
Returned(log, toolCall, toolResultData) ==
    IF Len(log) > 0 /\ log[Len(log)].call_id = toolCall.call_id
    THEN [log EXCEPT ![Len(log)].produced = toolResultData.imageBase64]
    ELSE log

\* Mutation: the image is kept for the response but the module state is not
\* updated (line 91 left out).
FinishIteration_NoStateUpdate(st, toolCall, toolResultData) ==
    [st EXCEPT
        !.final = IF toolResultData.imageBase64 # Null
                  THEN toolResultData.imageBase64 ELSE @,
        !.conv = Append(@, OutputEntry(toolCall, toolResultData.result)),
        !.log = Returned(@, toolCall, toolResultData),
        !.idx = @ + 1]

\* Mutation: only the first image of a turn is kept.
FinishIteration_FirstImageWins(st, toolCall, toolResultData) ==
    [st EXCEPT
        !.final = IF toolResultData.imageBase64 # Null /\ st.final = Null
                  THEN toolResultData.imageBase64 ELSE @,
        !.last = IF toolResultData.imageBase64 # Null /\ st.final = Null
                 THEN toolResultData.imageBase64 ELSE @,
        !.conv = Append(@, OutputEntry(toolCall, toolResultData.result)),
        !.log = Returned(@, toolCall, toolResultData),
        !.idx = @ + 1]

\* Mutation: an image already stored is not overwritten.
FinishIteration_KeepsStored(st, toolCall, toolResultData) ==
    [st EXCEPT
        !.final = IF toolResultData.imageBase64 # Null
                  THEN toolResultData.imageBase64 ELSE @,
        !.last = IF toolResultData.imageBase64 # Null /\ st.last = Null
                 THEN toolResultData.imageBase64 ELSE @,
        !.conv = Append(@, OutputEntry(toolCall, toolResultData.result)),
        !.log = Returned(@, toolCall, toolResultData),
        !.idx = @ + 1]

\* Mutation: the result is not appended to the context.
FinishIteration_NoOutput(st, toolCall, toolResultData) ==
    [st EXCEPT
        !.final = IF toolResultData.imageBase64 # Null
                  THEN toolResultData.imageBase64 ELSE @,
        !.last = IF toolResultData.imageBase64 # Null
                 THEN toolResultData.imageBase64 ELSE @,
        !.log = Returned(@, toolCall, toolResultData),
        !.idx = @ + 1]

\* Mutation: an invocation whose external call brought no image is run again.
FinishIteration_Retry(st, toolCall, toolResultData) ==
    [st EXCEPT
        !.final = IF toolResultData.imageBase64 # Null
                  THEN toolResultData.imageBase64 ELSE @,
        !.last = IF toolResultData.imageBase64 # Null
                 THEN toolResultData.imageBase64 ELSE @,
        !.conv = Append(@, OutputEntry(toolCall, toolResultData.result)),
        !.log = Returned(@, toolCall, toolResultData),
        !.idx = IF /\ toolResultData.imageBase64 = Null
                   /\ Len(st.log) > 0
                   /\ st.log[Len(st.log)].call_id = toolCall.call_id
                   /\ st.log[Len(st.log)].api
                THEN @ ELSE @ + 1]

\* Mutation: a result without image data clears the stored image.
FinishIteration_ClearsOnFailure(st, toolCall, toolResultData) ==
    [st EXCEPT
        !.final = IF toolResultData.imageBase64 # Null
                  THEN toolResultData.imageBase64 ELSE @,
        !.last = toolResultData.imageBase64,
        !.conv = Append(@, OutputEntry(toolCall, toolResultData.result)),
        !.log = Returned(@, toolCall, toolResultData),
        !.idx = @ + 1]

\* "Capture the image data if the tool returned any and update state", then
\* push the function_call_output: the tail of one loop iteration.
\* st is the handler's view: [idx, conv, log, last, final].
FinishIteration(st, toolCall, toolResultData) ==
    [st EXCEPT
        !.final = IF toolResultData.imageBase64 # Null
                  THEN toolResultData.imageBase64 ELSE @,
        !.last = IF toolResultData.imageBase64 # Null
                 THEN toolResultData.imageBase64 ELSE @,
        !.conv = Append(@, OutputEntry(toolCall, toolResultData.result)),
        !.log = Returned(@, toolCall, toolResultData),
        !.idx = @ + 1]

RECURSIVE RunLoop(_, _, _)
\* The for..of loop from position st.idx up to its next suspension: the
\* await of an external call ("tool"), the second model call ("second"), or
\* an exception that reaches the handler's catch block ("catch").
RunLoop(v, calls, st) ==
    IF st.idx > Len(calls) THEN [st EXCEPT !.pc = "second"]
    ELSE
      LET toolCall == calls[st.idx]
          pushed == [st EXCEPT !.conv = Append(@, CallEntry(toolCall))]
      IN
      IF ParseThrows(toolCall.arguments)
      THEN RunLoop(v, calls,
                   [pushed EXCEPT !.conv = Append(@, OutputEntry(toolCall, ParseErrorText(v))),
                                  !.idx = @ + 1])
      ELSE IF toolCall.name \notin {"generate_image", "edit_image", "analyze_image"}
      THEN RunLoop(v, calls,
                   FinishIteration(pushed, toolCall,
                       Dispatch(v, toolCall.name, toolCall.arguments, st.last, NoCall)))
      ELSE IF IssuesCall(toolCall.name, toolCall.arguments,
                         CurrentImageArg(toolCall.name, st.last))
      THEN [pushed EXCEPT !.pc = "tool",
                          !.log = Append(@, LogEntry(toolCall, st.last, TRUE))]
      ELSE
        LET toolResultData == Dispatch(v, toolCall.name, toolCall.arguments, st.last, NoCall)
            logged == [pushed EXCEPT !.log = Append(@, LogEntry(toolCall, st.last, FALSE))]
        IN IF toolResultData.threw
           THEN [logged EXCEPT !.pc = "catch"]
           ELSE RunLoop(v, calls, FinishIteration(logged, toolCall, toolResultData))

\* Mutation: the text is used as found, without the fallback.
ExtractText_Raw(text, fallback) == text

\* Mutation: ?? in place of ||: an empty text is kept.
ExtractText_KeepsEmpty(text, fallback) ==
    IF text = Undefined THEN fallback ELSE text

\* output.find(message, assistant)?.content?.find(output_text)?.text || fallback
ExtractText(text, fallback) ==
    IF text = Undefined \/ text = "" THEN fallback ELSE text

\* The HTTP responses.
NoResponse ==
    [status |-> 0, error |-> Undefined, details |-> Undefined,
     assistantResponse |-> Undefined, imageBase64 |-> Null]
Ok200(assistantText, image) ==
    [NoResponse EXCEPT !.status = 200, !.assistantResponse = assistantText,
                       !.imageBase64 = image]
Err400 == [NoResponse EXCEPT !.status = 400, !.error = "Message is required"]
Err500NoKey ==
    [NoResponse EXCEPT !.status = 500, !.error = "OPENAI_API_KEY is not set in .env file"]
\* the catch block of the handler: details is error.message
Err500(details) ==
    [NoResponse EXCEPT !.status = 500, !.error = "Failed to process chat message",
                       !.details = details]

\* The catch block's effect on the module state: none in either build
\* (chatController.js leaves "lastResponseId = null" commented out).
CatchLastResponseId(old) == old
CatchLastImage(old) == old

\* The process has started; h says whether the turn-start history is kept.
Start(h) ==
    /\ variant \in Variants
    /\ history = h
    /\ apiKey \in BOOLEAN
    /\ lastResponseId = Null
    /\ lastGeneratedImageBase64 = Null
    /\ pc = [r \in Reqs |-> "idle"]
    /\ toolCalls = [r \in Reqs |-> <<>>]
    /\ idx = [r \in Reqs |-> 0]
    /\ conversationInput = [r \in Reqs |-> <<>>]
    /\ finalImageBase64 = [r \in Reqs |-> Null]
    /\ currentResponseId = [r \in Reqs |-> Null]
    /\ res = [r \in Reqs |-> NoResponse]
    /\ startResponseId = [r \in Reqs |-> Null]
    /\ startImage = [r \in Reqs |-> Null]
    /\ execLog = [r \in Reqs |-> <<>>]
    /\ modelCalls = [r \in Reqs |-> 0]
    /\ firstText = [r \in Reqs |-> Undefined]
    /\ secondText = [r \in Reqs |-> Undefined]
    /\ message = [r \in Reqs |-> ""]
    /\ previous_response_id = [r \in Reqs |-> Null]
    /\ finalResponseId = [r \in Reqs |-> Null]
    /\ lastReturnedImage = Null
    /\ imageWriter = 0
    /\ idWriter = 0
    /\ secondToolCalls = [r \in Reqs |-> <<>>]

Init == Start(TRUE)

\* The previous_response_id field of the first openai.responses.create:
\* chatController.js leaves the field out, server.js (and the server of
\* unnamed/part_000) passes lastResponseId.
FirstCallPreviousId(v, last) == IF v = "server" THEN last ELSE Null

\* Mutation: the message is not validated.
Receive_NoMessageCheck(r, m) ==
    /\ pc[r] = "idle"
    /\ message' = [message EXCEPT ![r] = m]
    /\ history => /\ startResponseId' = [startResponseId EXCEPT ![r] = lastResponseId]
                  /\ startImage' = [startImage EXCEPT ![r] = lastGeneratedImageBase64]
    /\ ~history => UNCHANGED <<startResponseId, startImage>>
    /\ IF ~apiKey
       THEN /\ res' = [res EXCEPT ![r] = Err500NoKey]
            /\ pc' = [pc EXCEPT ![r] = "done"]
            /\ UNCHANGED previous_response_id
       ELSE IF FALSE
       THEN /\ res' = [res EXCEPT ![r] = Err400]
            /\ pc' = [pc EXCEPT ![r] = "done"]
            /\ UNCHANGED previous_response_id
       ELSE /\ res' = res
            /\ pc' = [pc EXCEPT ![r] = "first"]
            /\ previous_response_id' = [previous_response_id EXCEPT ![r] =
                                           FirstCallPreviousId(variant, lastResponseId)]
    /\ modelCalls' = [modelCalls EXCEPT ![r] = IF apiKey THEN 1 ELSE 0]
    /\ UNCHANGED <<variant, history, apiKey, lastResponseId, lastGeneratedImageBase64, toolCalls,
                   idx, conversationInput, finalImageBase64, currentResponseId, execLog,
                   firstText, secondText, finalResponseId, lastReturnedImage,
                   imageWriter, idWriter, secondToolCalls>>

\* Mutation: the message is checked before the API key.
Receive_MessageFirst(r, m) ==
    /\ pc[r] = "idle"
    /\ message' = [message EXCEPT ![r] = m]
    /\ history => /\ startResponseId' = [startResponseId EXCEPT ![r] = lastResponseId]
                  /\ startImage' = [startImage EXCEPT ![r] = lastGeneratedImageBase64]
    /\ ~history => UNCHANGED <<startResponseId, startImage>>
    /\ IF m = ""
       THEN /\ res' = [res EXCEPT ![r] = Err400]
            /\ pc' = [pc EXCEPT ![r] = "done"]
            /\ UNCHANGED previous_response_id
       ELSE IF ~apiKey
       THEN /\ res' = [res EXCEPT ![r] = Err500NoKey]
            /\ pc' = [pc EXCEPT ![r] = "done"]
            /\ UNCHANGED previous_response_id
       ELSE /\ res' = res
            /\ pc' = [pc EXCEPT ![r] = "first"]
            /\ previous_response_id' = [previous_response_id EXCEPT ![r] =
                                           FirstCallPreviousId(variant, lastResponseId)]
    /\ modelCalls' = [modelCalls EXCEPT ![r] = IF apiKey /\ m # "" THEN 1 ELSE 0]
    /\ UNCHANGED <<variant, history, apiKey, lastResponseId, lastGeneratedImageBase64, toolCalls,
                   idx, conversationInput, finalImageBase64, currentResponseId, execLog,
                   firstText, secondText, finalResponseId, lastReturnedImage,
                   imageWriter, idWriter, secondToolCalls>>

\* POST /api/chat arrives: the two guards, then the first model call is issued.
Receive(r, m) ==
    /\ pc[r] = "idle"
    /\ message' = [message EXCEPT ![r] = m]
    /\ history => /\ startResponseId' = [startResponseId EXCEPT ![r] = lastResponseId]
                  /\ startImage' = [startImage EXCEPT ![r] = lastGeneratedImageBase64]
    /\ ~history => UNCHANGED <<startResponseId, startImage>>
    /\ IF ~apiKey
       THEN /\ res' = [res EXCEPT ![r] = Err500NoKey]
            /\ pc' = [pc EXCEPT ![r] = "done"]
            /\ UNCHANGED previous_response_id
       ELSE IF m = ""
       THEN /\ res' = [res EXCEPT ![r] = Err400]
            /\ pc' = [pc EXCEPT ![r] = "done"]
            /\ UNCHANGED previous_response_id
       ELSE /\ res' = res
            /\ pc' = [pc EXCEPT ![r] = "first"]
            /\ previous_response_id' = [previous_response_id EXCEPT ![r] =
                                           FirstCallPreviousId(variant, lastResponseId)]
    /\ modelCalls' = [modelCalls EXCEPT ![r] = IF apiKey /\ m # "" THEN 1 ELSE 0]
    /\ UNCHANGED <<variant, history, apiKey, lastResponseId, lastGeneratedImageBase64, toolCalls,
                   idx, conversationInput, finalImageBase64, currentResponseId, execLog,
                   firstText, secondText, finalResponseId, lastReturnedImage,
                   imageWriter, idWriter, secondToolCalls>>

\* Mutation: the identifier of the first response is stored while the turn
\* is still running.
AfterLoop_WritesId(r, st) ==
    /\ idx' = [idx EXCEPT ![r] = st.idx]
    /\ conversationInput' = [conversationInput EXCEPT ![r] = st.conv]
    /\ execLog' = [execLog EXCEPT ![r] = st.log]
    /\ finalImageBase64' = [finalImageBase64 EXCEPT ![r] = st.final]
    /\ modelCalls' = [modelCalls EXCEPT ![r] = IF st.pc = "second" THEN @ + 1 ELSE @]
    /\ IF st.pc = "catch"
       THEN /\ lastGeneratedImageBase64' = CatchLastImage(st.last)
            /\ lastResponseId' = CatchLastResponseId(lastResponseId)
            /\ res' = [res EXCEPT ![r] = Err500("TypeError")]
            /\ pc' = [pc EXCEPT ![r] = "done"]
       ELSE /\ lastGeneratedImageBase64' = st.last
            /\ lastResponseId' = currentResponseId[r]
            /\ res' = res
            /\ pc' = [pc EXCEPT ![r] = st.pc]

\* The handler's state after a run of the loop is stored back; the run ends
\* with an external call pending or in the catch block.
AfterLoop(r, st) ==
    /\ idx' = [idx EXCEPT ![r] = st.idx]
    /\ conversationInput' = [conversationInput EXCEPT ![r] = st.conv]
    /\ execLog' = [execLog EXCEPT ![r] = st.log]
    /\ finalImageBase64' = [finalImageBase64 EXCEPT ![r] = st.final]
    /\ modelCalls' = [modelCalls EXCEPT ![r] = IF st.pc = "second" THEN @ + 1 ELSE @]
    /\ IF st.pc = "catch"
       THEN /\ lastGeneratedImageBase64' = CatchLastImage(st.last)
            /\ lastResponseId' = CatchLastResponseId(lastResponseId)
            /\ res' = [res EXCEPT ![r] = Err500("TypeError")]
            /\ pc' = [pc EXCEPT ![r] = "done"]
       ELSE /\ lastGeneratedImageBase64' = st.last
            /\ lastResponseId' = lastResponseId
            /\ res' = res
            /\ pc' = [pc EXCEPT ![r] = st.pc]

\* Mutation: the rejection of the first call is swallowed; no response is sent.
FirstCallFails_Hangs(r) ==
    /\ pc[r] = "first"
    /\ pc' = [pc EXCEPT ![r] = "hung"]
    /\ UNCHANGED <<variant, history, apiKey, lastResponseId, lastGeneratedImageBase64,
                   toolCalls, idx, conversationInput, finalImageBase64, res,
                   currentResponseId, startResponseId, startImage, execLog, modelCalls,
                   firstText, secondText, message, previous_response_id, finalResponseId,
                   lastReturnedImage, imageWriter, idWriter, secondToolCalls>>

\* The first openai.responses.create rejects.
FirstCallFails(r) ==
    /\ pc[r] = "first"
    /\ res' = [res EXCEPT ![r] = Err500("model call failed")]
    /\ pc' = [pc EXCEPT ![r] = "done"]
    /\ lastResponseId' = CatchLastResponseId(lastResponseId)
    /\ lastGeneratedImageBase64' = CatchLastImage(lastGeneratedImageBase64)
    /\ UNCHANGED <<variant, history, apiKey, toolCalls, idx, conversationInput, finalImageBase64,
                   currentResponseId, startResponseId, startImage, execLog, modelCalls,
                   firstText, secondText, message, previous_response_id, finalResponseId,
                   lastReturnedImage, imageWriter, idWriter, secondToolCalls>>

\* Mutation: the branch without tool calls leaves lastResponseId as it was.
FirstCallReturns_NoIdUpdate(r, id, calls, text) ==
    /\ pc[r] = "first"
    /\ currentResponseId' = [currentResponseId EXCEPT ![r] = id]
    /\ toolCalls' = [toolCalls EXCEPT ![r] = calls]
    /\ firstText' = [firstText EXCEPT ![r] = text]
    /\ IF Len(calls) > 0
       THEN AfterLoop(r, RunLoop(variant, calls,
                [pc |-> "loop", idx |-> 1, conv |-> <<UserEntry>>, log |-> <<>>,
                 last |-> lastGeneratedImageBase64, final |-> Null]))
       ELSE /\ lastResponseId' = lastResponseId
            /\ res' = [res EXCEPT ![r] =
                          Ok200(ExtractText(text, "Sorry, I couldn't generate a response."),
                                Null)]
            /\ pc' = [pc EXCEPT ![r] = "done"]
            /\ conversationInput' = [conversationInput EXCEPT ![r] = <<UserEntry>>]
            /\ UNCHANGED <<lastGeneratedImageBase64, idx, finalImageBase64, execLog, modelCalls>>
    /\ idWriter' = IF Len(calls) > 0 THEN idWriter ELSE r
    /\ UNCHANGED <<variant, history, apiKey, startResponseId, startImage, secondText,
                   message, previous_response_id, finalResponseId, lastReturnedImage,
                   imageWriter, secondToolCalls>>

\* The first openai.responses.create resolves with identifier id, the
\* function_call items calls and the assistant text text.
FirstCallReturns(r, id, calls, text) ==
    /\ pc[r] = "first"
    /\ currentResponseId' = [currentResponseId EXCEPT ![r] = id]
    /\ toolCalls' = [toolCalls EXCEPT ![r] = calls]
    /\ firstText' = [firstText EXCEPT ![r] = text]
    /\ IF Len(calls) > 0
       THEN AfterLoop(r, RunLoop(variant, calls,
                [pc |-> "loop", idx |-> 1, conv |-> <<UserEntry>>, log |-> <<>>,
                 last |-> lastGeneratedImageBase64, final |-> Null]))
       ELSE /\ lastResponseId' = id
            /\ res' = [res EXCEPT ![r] =
                          Ok200(ExtractText(text, "Sorry, I couldn't generate a response."),
                                Null)]
            /\ pc' = [pc EXCEPT ![r] = "done"]
            /\ conversationInput' = [conversationInput EXCEPT ![r] = <<UserEntry>>]
            /\ UNCHANGED <<lastGeneratedImageBase64, idx, finalImageBase64, execLog, modelCalls>>
    /\ idWriter' = IF Len(calls) > 0 THEN idWriter ELSE r
    /\ UNCHANGED <<variant, history, apiKey, startResponseId, startImage, secondText,
                   message, previous_response_id, finalResponseId, lastReturnedImage,
                   imageWriter, secondToolCalls>>

\* Mutation: the executors of a turn keep working on the image its previous
\* executor was given, whatever the shared state holds by now.
ToolReturns_TurnImage(r, outcome) ==
    /\ pc[r] = "tool"
    /\ LET toolCall == toolCalls[r][idx[r]]
           passed == execLog[r][Len(execLog[r])].currentImage
           toolResultData == Dispatch(variant, toolCall.name, toolCall.arguments, passed, outcome)
           st == [pc |-> "loop", idx |-> idx[r], conv |-> conversationInput[r],
                  log |-> execLog[r],
                  last |-> IF passed # Null THEN passed ELSE lastGeneratedImageBase64,
                  final |-> finalImageBase64[r]]
       IN /\ outcome \in ToolOutcomes(toolCall.name)
          /\ AfterLoop(r, RunLoop(variant, toolCalls[r],
                                  FinishIteration(st, toolCall, toolResultData)))
          /\ IF toolResultData.imageBase64 # Null
             THEN /\ lastReturnedImage' = toolResultData.imageBase64
                  /\ imageWriter' = r
             ELSE UNCHANGED <<lastReturnedImage, imageWriter>>
    /\ UNCHANGED <<variant, history, apiKey, toolCalls, currentResponseId, startResponseId,
                   startImage, firstText, secondText, message, previous_response_id,
                   finalResponseId, idWriter, secondToolCalls>>

\* The external call of the executor at position idx comes back.
ToolReturns(r, outcome) ==
    /\ pc[r] = "tool"
    /\ LET toolCall == toolCalls[r][idx[r]]
           passed == execLog[r][Len(execLog[r])].currentImage
           toolResultData == Dispatch(variant, toolCall.name, toolCall.arguments, passed, outcome)
           st == [pc |-> "loop", idx |-> idx[r], conv |-> conversationInput[r],
                  log |-> execLog[r], last |-> lastGeneratedImageBase64,
                  final |-> finalImageBase64[r]]
       IN /\ outcome \in ToolOutcomes(toolCall.name)
          /\ AfterLoop(r, RunLoop(variant, toolCalls[r],
                                  FinishIteration(st, toolCall, toolResultData)))
          /\ IF toolResultData.imageBase64 # Null
             THEN /\ lastReturnedImage' = toolResultData.imageBase64
                  /\ imageWriter' = r
             ELSE UNCHANGED <<lastReturnedImage, imageWriter>>
    /\ UNCHANGED <<variant, history, apiKey, toolCalls, currentResponseId, startResponseId,
                   startImage, firstText, secondText, message, previous_response_id,
                   finalResponseId, idWriter, secondToolCalls>>

\* The second openai.responses.create rejects.
SecondCallFails(r) ==
    /\ pc[r] = "second"
    /\ res' = [res EXCEPT ![r] = Err500("model call failed")]
    /\ pc' = [pc EXCEPT ![r] = "done"]
    /\ lastResponseId' = CatchLastResponseId(lastResponseId)
    /\ lastGeneratedImageBase64' = CatchLastImage(lastGeneratedImageBase64)
    /\ UNCHANGED <<variant, history, apiKey, toolCalls, idx, conversationInput, finalImageBase64,
                   currentResponseId, startResponseId, startImage, execLog, modelCalls,
                   firstText, secondText, message, previous_response_id, finalResponseId,
                   lastReturnedImage, imageWriter, idWriter, secondToolCalls>>

\* Mutation: the response carries the stored image, not this turn's.
SecondCallReturns_StoredImage(r, id, text, calls) ==
    /\ pc[r] = "second"
    /\ lastResponseId' = id
    /\ res' = [res EXCEPT ![r] =
                  Ok200(ExtractText(text, "Sorry, I couldn't process the results of the tool call."),
                        lastGeneratedImageBase64)]
    /\ pc' = [pc EXCEPT ![r] = "done"]
    /\ secondText' = [secondText EXCEPT ![r] = text]
    /\ finalResponseId' = [finalResponseId EXCEPT ![r] = id]
    /\ secondToolCalls' = [secondToolCalls EXCEPT ![r] = calls]
    /\ idWriter' = r
    /\ UNCHANGED <<variant, history, apiKey, lastGeneratedImageBase64, toolCalls, idx,
                   conversationInput, finalImageBase64, currentResponseId, startResponseId,
                   startImage, execLog, modelCalls, firstText, message,
                   previous_response_id, lastReturnedImage, imageWriter>>

\* Mutation: the state keeps the identifier of the first response.
SecondCallReturns_FirstId(r, id, text, calls) ==
    /\ pc[r] = "second"
    /\ lastResponseId' = currentResponseId[r]
    /\ res' = [res EXCEPT ![r] =
                  Ok200(ExtractText(text, "Sorry, I couldn't process the results of the tool call."),
                        finalImageBase64[r])]
    /\ pc' = [pc EXCEPT ![r] = "done"]
    /\ secondText' = [secondText EXCEPT ![r] = text]
    /\ finalResponseId' = [finalResponseId EXCEPT ![r] = id]
    /\ secondToolCalls' = [secondToolCalls EXCEPT ![r] = calls]
    /\ idWriter' = r
    /\ UNCHANGED <<variant, history, apiKey, lastGeneratedImageBase64, toolCalls, idx,
                   conversationInput, finalImageBase64, currentResponseId, startResponseId,
                   startImage, execLog, modelCalls, firstText, message,
                   previous_response_id, lastReturnedImage, imageWriter>>

\* Mutation: a second response that carries tool invocations is followed by
\* another model call.
SecondCallReturns_ThirdCall(r, id, text, calls) ==
    /\ pc[r] = "second"
    /\ lastResponseId' = id
    /\ IF calls # <<>> /\ modelCalls[r] < 3
       THEN /\ res' = res
            /\ pc' = pc
       ELSE /\ res' = [res EXCEPT ![r] =
                  Ok200(ExtractText(text, "Sorry, I couldn't process the results of the tool call."),
                        finalImageBase64[r])]
            /\ pc' = [pc EXCEPT ![r] = "done"]
    /\ modelCalls' = [modelCalls EXCEPT ![r] = IF calls # <<>> /\ @ < 3 THEN @ + 1 ELSE @]
    /\ secondText' = [secondText EXCEPT ![r] = text]
    /\ finalResponseId' = [finalResponseId EXCEPT ![r] = id]
    /\ secondToolCalls' = [secondToolCalls EXCEPT ![r] = calls]
    /\ idWriter' = r
    /\ UNCHANGED <<variant, history, apiKey, lastGeneratedImageBase64, toolCalls, idx,
                   conversationInput, finalImageBase64, currentResponseId, startResponseId,
                   startImage, execLog, firstText, message,
                   previous_response_id, lastReturnedImage, imageWriter>>

\* The second openai.responses.create resolves with identifier id, the
\* assistant text text and the function_call items calls: only the assistant
\* message is looked up in finalResponse.output, the items are not read.
SecondCallReturns(r, id, text, calls) ==
    /\ pc[r] = "second"
    /\ lastResponseId' = id
    /\ res' = [res EXCEPT ![r] =
                  Ok200(ExtractText(text, "Sorry, I couldn't process the results of the tool call."),
                        finalImageBase64[r])]
    /\ pc' = [pc EXCEPT ![r] = "done"]
    /\ secondText' = [secondText EXCEPT ![r] = text]
    /\ finalResponseId' = [finalResponseId EXCEPT ![r] = id]
    /\ secondToolCalls' = [secondToolCalls EXCEPT ![r] = calls]
    /\ idWriter' = r
    /\ UNCHANGED <<variant, history, apiKey, lastGeneratedImageBase64, toolCalls, idx,
                   conversationInput, finalImageBase64, currentResponseId, startResponseId,
                   startImage, execLog, modelCalls, firstText, message,
                   previous_response_id, lastReturnedImage, imageWriter>>

\* The response has been delivered; the handler's locals are gone.
Close(r) ==
    /\ pc[r] = "done"
    /\ pc' = [pc EXCEPT ![r] = "idle"]
    /\ toolCalls' = [toolCalls EXCEPT ![r] = <<>>]
    /\ idx' = [idx EXCEPT ![r] = 0]
    /\ conversationInput' = [conversationInput EXCEPT ![r] = <<>>]
    /\ finalImageBase64' = [finalImageBase64 EXCEPT ![r] = Null]
    /\ currentResponseId' = [currentResponseId EXCEPT ![r] = Null]
    /\ res' = [res EXCEPT ![r] = NoResponse]
    /\ startResponseId' = [startResponseId EXCEPT ![r] = Null]
    /\ startImage' = [startImage EXCEPT ![r] = Null]
    /\ execLog' = [execLog EXCEPT ![r] = <<>>]
    /\ modelCalls' = [modelCalls EXCEPT ![r] = 0]
    /\ firstText' = [firstText EXCEPT ![r] = Undefined]
    /\ secondText' = [secondText EXCEPT ![r] = Undefined]
    /\ message' = [message EXCEPT ![r] = ""]
    /\ previous_response_id' = [previous_response_id EXCEPT ![r] = Null]
    /\ finalResponseId' = [finalResponseId EXCEPT ![r] = Null]
    /\ imageWriter' = IF imageWriter = r THEN 0 ELSE imageWriter
    /\ idWriter' = IF idWriter = r THEN 0 ELSE idWriter
    /\ secondToolCalls' = [secondToolCalls EXCEPT ![r] = <<>>]
    /\ UNCHANGED <<variant, history, apiKey, lastResponseId, lastGeneratedImageBase64,
                   lastReturnedImage>>

Messages == {"", "draw a cat"}

\* What the model API and the image and vision APIs may answer to request
\* r, the model's responses being drawn from lists and texts and the tools'
\* outcomes from outcomes; seconds are the function_call lists the second
\* response may carry.
Step(r, lists, texts, outcomes, seconds) ==
    \/ FirstCallFails(r)
    \/ /\ pc[r] = "first"
       /\ \E id \in Ids, calls \in lists, text \in texts :
             \* the text and the identifier beside function calls are never read
             \* (currentResponseId is used in the branch without tool calls
             \* only): one value stands for all
             /\ Len(calls) > 0 => /\ text = (CHOOSE t \in texts : TRUE)
                                  /\ id = (CHOOSE i \in Ids : TRUE)
             /\ FirstCallReturns(r, id, calls, text)
    \/ /\ pc[r] = "tool"
       /\ \E outcome \in ToolOutcomes(toolCalls[r][idx[r]].name) \cap outcomes :
             ToolReturns(r, outcome)
    \/ SecondCallFails(r)
    \/ /\ pc[r] = "second"
       /\ \E id \in Ids, text \in texts, calls \in seconds :
             SecondCallReturns(r, id, text, calls)
    \/ Close(r)

\* One request at a time: a request arrives only when no other is in
\* progress.  Which slot serves it is immaterial, so the first one does.
NextSeq ==
    \E r \in {CHOOSE q \in Reqs : \A p \in Reqs : q <= p} :
        \/ \E m \in Messages : Receive(r, m)
        \/ Step(r, ToolCallLists, ModelTexts, ImageOutcomes \cup VisionOutcomes, {<<>>})

SpecSeq == Init /\ [][NextSeq]_vars

\* Requests may overlap.
OverlapOutcomes ==
    {o \in ImageOutcomes \cup VisionOutcomes : o.kind \in {"error", "image", "text"}}

InitOverlap ==
    /\ Start(FALSE)
    /\ apiKey
    /\ variant = "chatController"

RECURSIVE InFlight(_)
\* the tool invocations of the requests in S that have not been closed
InFlight(S) ==
    IF S = {} THEN 0
    ELSE LET q == CHOOSE x \in S : TRUE
         IN Len(toolCalls[q]) + InFlight(S \ {q})

\* A model response whose invocations fit in what is left of MaxOverlapCalls.
OverlapCallLists(r) ==
    {l \in ImageToolCallLists : InFlight(Reqs \ {r}) + Len(l) <= MaxOverlapCalls}

\* A request that arrives is served by the first idle slot (which one is
\* immaterial).
FirstIdle(r) == pc[r] = "idle" /\ \A q \in Reqs : pc[q] = "idle" => r <= q

Next ==
    \E r \in Reqs :
        \/ FirstIdle(r) /\ Receive(r, "draw a cat")
        \/ Step(r, OverlapCallLists(r), {"assistant text"}, OverlapOutcomes, {<<>>})

Spec == InitOverlap /\ [][Next]_vars

\* the slot that serves the requests when they come one at a time
Serving == {r \in Reqs : \A p \in Reqs : r <= p}

\* One request at a time, every kind of invocation and every outcome of the
\* external calls, the model's texts being all alike: the tool loop.
NextLoop ==
    \E r \in Serving :
        \/ Receive(r, "draw a cat")
        \/ Step(r, ToolCallLists, {"assistant text"}, ImageOutcomes \cup VisionOutcomes, {<<>>})

SpecLoop == Init /\ [][NextLoop]_vars

\* One request at a time, well-formed invocations of the image tools, and
\* every text the model may answer with (absent, empty or a sentence): the
\* assembly of the response.
NextText ==
    \E r \in Serving :
        \/ \E m \in Messages : Receive(r, m)
        \/ Step(r, ImageToolCallLists, ModelTexts, OverlapOutcomes, {<<>>})

SpecText == Init /\ [][NextText]_vars

\* The second response may itself carry function_call items: none, or one
\* well-formed invocation of an image tool.
SecondResponseCalls == {l \in ImageToolCallLists : Len(l) <= 1}

\* One request at a time, with well-formed invocations of the image tools in
\* the first response and any of SecondResponseCalls in the second.
NextTurn ==
    \E r \in {CHOOSE q \in Reqs : \A p \in Reqs : q <= p} :
        \/ Receive(r, "draw a cat")
        \/ Step(r, ImageToolCallLists, {"assistant text"}, OverlapOutcomes,
                SecondResponseCalls)

SpecTurn == Init /\ [][NextTurn]_vars

\* The resumptions of the handler of r: the outcome of its pending external
\* call arrives (it returns or it fails) and the handler runs on.
Resume(r) == Step(r, ImageToolCallLists, {"assistant text"}, OverlapOutcomes, {<<>>})

\* One request at a time, every external call eventually coming back: a
\* pending call of r keeps Resume(r) enabled until it is taken.
NextLive ==
    \E r \in Serving :
        \/ \E m \in Messages : Receive(r, m)
        \/ Resume(r)

\* the build of chatController.js, with or without the API key
InitLive == Start(FALSE) /\ variant = "chatController"

SpecLive == InitLive /\ [][NextLive]_vars /\ \A r \in Serving : WF_vars(Resume(r))

\* ===================================================================
\* The prefix-signalling server (unnamed/part_001, lines 1-298)
\* ===================================================================
\* An earlier build of the server has no tool invocations: the model is
\* instructed to begin its reply with a marker, and the handler looks for the
\* marker in the reply text and calls the image or vision API itself.  It
\* keeps the same two module variables and runs as variant "prefix".

\* The markers, in the order the handler tests them.
imageEditPromptPrefix == "IMAGE_EDIT_PROMPT: "
imageGenPromptPrefix == "IMAGE_PROMPT: "
imageAnalyzePromptPrefix == "IMAGE_ANALYZE_PROMPT: "

\* The reply text of the first response, split where a marker ends: marker
\* is one of the three markers or "" (the text begins with none of them),
\* rest is what follows, which may be empty or blank.  The pair ("", "")
\* stands for a response without text (output_text and output[0] missing or
\* empty).
PrefixReplies ==
    [marker : {"", imageEditPromptPrefix, imageGenPromptPrefix, imageAnalyzePromptPrefix},
     rest : {"", " ", "a cat"}]

\* The identifier of the first response: responseData?.id may be missing.
PrefixIds == Ids \cup {Null}

\* assistantText after the extraction of lines 61-75
PrefixAssistantText(reply) ==
    IF reply.marker \o reply.rest = "" THEN "Sorry, I couldn't get a response."
    ELSE reply.marker \o reply.rest

\* assistantText.startsWith(prefix), the default sentence beginning with no marker
StartsWith(reply, prefix) == reply.marker = prefix

\* assistantText.substring(prefix.length).trim()
TrimmedRest(reply) == IF reply.rest = " " THEN "" ELSE reply.rest

\* The external call the reply leads to, or "none" with the text answered
\* instead (lines 84-96, 134-138 and 166-171, 173-189).
PrefixDecide(reply, lastImage) ==
    IF StartsWith(reply, imageEditPromptPrefix)
    THEN IF lastImage = Null
         THEN [call |-> "none",
               text |-> "You asked to edit an image, but I don't have a previous image stored. Please generate one first."]
         ELSE IF TrimmedRest(reply) = ""
         THEN [call |-> "none",
               text |-> "You asked to edit the image, but didn't specify the changes. What should I do?"]
         ELSE [call |-> "images.edit", text |-> PrefixAssistantText(reply)]
    ELSE IF StartsWith(reply, imageGenPromptPrefix)
    THEN IF TrimmedRest(reply) # ""
         THEN [call |-> "images.generate", text |-> PrefixAssistantText(reply)]
         ELSE [call |-> "none",
               text |-> "It seems you wanted an image, but didn't provide a description. What should I generate?"]
    ELSE IF StartsWith(reply, imageAnalyzePromptPrefix)
    THEN IF lastImage = Null
         THEN [call |-> "none",
               text |-> "You asked me to analyze an image, but I don't have one stored. Please generate or edit one first."]
         ELSE IF TrimmedRest(reply) = ""
         THEN [call |-> "none",
               text |-> "You asked me to analyze the image, but didn't specify what to look for. What should I analyze?"]
         ELSE [call |-> "responses.create", text |-> PrefixAssistantText(reply)]
    ELSE [call |-> "none", text |-> PrefixAssistantText(reply)]

\* What the awaited call of each branch may do: the image calls as
\* ImageOutcomes (an edit also awaits toFile, whose rejection is its
\* "error"), the vision call as VisionOutcomes.
PrefixOutcomes(call) ==
    IF call = "responses.create" THEN VisionOutcomes ELSE ImageOutcomes

\* The statements of the try block after the awaited call throw: the call
\* rejected, or data[0] is undefined and reading b64_json is a TypeError.
LocalCatch(call, outcome) ==
    \/ outcome.kind = "error"
    \/ call # "responses.create" /\ outcome.kind = "no_data"

LocalErrorText(call) ==
    CASE call = "images.edit" -> "Sorry, I encountered an error trying to edit the image: <message>"
      [] call = "images.generate" -> "Sorry, I encountered an error trying to generate the image: <message>"
      [] call = "responses.create" -> "Sorry, I encountered an error trying to analyze the image: <message>"

\* Mutation: the branch has no try/catch of its own; the error is thrown on.
PrefixBranchResult_NoLocalCatch(call, outcome, id, st) ==
    IF LocalCatch(call, outcome)
    THEN [text |-> Undefined, image |-> Null, thrown |-> TRUE,
          lastImage |-> st.lastImage, lastResponseId |-> st.lastResponseId]
    ELSE IF call = "responses.create"
    THEN [text |-> IF outcome.kind = "text" THEN "<analysis>"
                   ELSE "Sorry, I analyzed the image but couldn't form a text response.",
          image |-> Null, thrown |-> FALSE,
          lastImage |-> st.lastImage, lastResponseId |-> id]
    ELSE [text |-> Undefined, image |-> outcome.image, thrown |-> FALSE,
          lastImage |-> outcome.image, lastResponseId |-> id]

\* The rest of a branch once its awaited call has come back (lines 113-131,
\* 147-165, 213-245): the handler's assistantText and imageBase64 and the
\* module state st = [lastImage, lastResponseId] it leaves.  An image call
\* that resolves stores data[0].b64_json, whatever it is, and clears the text.
PrefixBranchResult(call, outcome, id, st) ==
    IF LocalCatch(call, outcome)
    THEN [text |-> LocalErrorText(call), image |-> Null, thrown |-> FALSE,
          lastImage |-> st.lastImage,
          lastResponseId |-> IF id # Null THEN id
                             ELSE IF call = "responses.create" THEN Null
                             ELSE st.lastResponseId]
    ELSE IF call = "responses.create"
    THEN [text |-> IF outcome.kind = "text" THEN "<analysis>"
                   ELSE "Sorry, I analyzed the image but couldn't form a text response.",
          image |-> Null, thrown |-> FALSE,
          lastImage |-> st.lastImage, lastResponseId |-> id]
    ELSE [text |-> Undefined, image |-> outcome.image, thrown |-> FALSE,
          lastImage |-> outcome.image, lastResponseId |-> id]

\* "Update conversation state" (lines 252-265): the value of lastResponseId
\* after it, last being its value before.
PrefixFinalId(assistantText, imageBase64, id, last) ==
    IF assistantText \notin {Undefined, ""} /\ imageBase64 = Null THEN id
    ELSE IF assistantText \in {Undefined, ""} /\ imageBase64 = Null THEN Null
    ELSE last

PrefixErr400 == [NoResponse EXCEPT !.status = 400, !.error = "Message content is required"]

\* An image or vision call of the handler is pending.
PrefixLogEntry(call, lastImage) ==
    [call_id |-> 0, name |-> call,
     currentImage |-> IF call = "images.generate" THEN Null ELSE lastImage,
     api |-> TRUE, produced |-> Null, outcome |-> "pending"]

\* POST /api/chat arrives (lines 37-56): the two guards, then the first
\* model call is issued with previous_response_id: lastResponseId.
PrefixReceive(r, m) ==
    /\ pc[r] = "idle"
    /\ message' = [message EXCEPT ![r] = m]
    /\ history => /\ startResponseId' = [startResponseId EXCEPT ![r] = lastResponseId]
                  /\ startImage' = [startImage EXCEPT ![r] = lastGeneratedImageBase64]
    /\ ~history => UNCHANGED <<startResponseId, startImage>>
    /\ IF ~apiKey
       THEN /\ res' = [res EXCEPT ![r] = Err500NoKey]
            /\ pc' = [pc EXCEPT ![r] = "done"]
            /\ UNCHANGED previous_response_id
       ELSE IF m = ""
       THEN /\ res' = [res EXCEPT ![r] = PrefixErr400]
            /\ pc' = [pc EXCEPT ![r] = "done"]
            /\ UNCHANGED previous_response_id
       ELSE /\ res' = res
            /\ pc' = [pc EXCEPT ![r] = "first"]
            /\ previous_response_id' = [previous_response_id EXCEPT ![r] = lastResponseId]
    /\ modelCalls' = [modelCalls EXCEPT ![r] = IF apiKey /\ m # "" THEN 1 ELSE 0]
    /\ UNCHANGED <<variant, history, apiKey, lastResponseId, lastGeneratedImageBase64, toolCalls,
                   idx, conversationInput, finalImageBase64, currentResponseId, execLog,
                   firstText, secondText, finalResponseId, lastReturnedImage,
                   imageWriter, idWriter, secondToolCalls>>

\* The first openai.responses.create rejects: the outer catch block (lines
\* 276-282) answers 500 and resets both module variables.
PrefixFirstCallFails(r) ==
    /\ pc[r] = "first"
    /\ res' = [res EXCEPT ![r] = Err500("model call failed")]
    /\ pc' = [pc EXCEPT ![r] = "done"]
    /\ lastResponseId' = Null
    /\ lastGeneratedImageBase64' = Null
    /\ UNCHANGED <<variant, history, apiKey, toolCalls, idx, conversationInput, finalImageBase64,
                   currentResponseId, startResponseId, startImage, execLog, modelCalls,
                   firstText, secondText, message, previous_response_id, finalResponseId,
                   lastReturnedImage, imageWriter, idWriter, secondToolCalls>>

\* The first openai.responses.create resolves with identifier id and the
\* reply text reply (lines 58-96, 134-146, 173-211, 249-274): the handler
\* either answers with a text or issues the call its marker asks for.
PrefixFirstCallReturns(r, id, reply) ==
    /\ pc[r] = "first"
    /\ currentResponseId' = [currentResponseId EXCEPT ![r] = id]
    /\ firstText' = [firstText EXCEPT ![r] = PrefixAssistantText(reply)]
    /\ LET d == PrefixDecide(reply, lastGeneratedImageBase64)
       IN IF d.call = "none"
          THEN /\ lastResponseId' = PrefixFinalId(d.text, Null, id, lastResponseId)
               /\ res' = [res EXCEPT ![r] = Ok200(d.text, Null)]
               /\ pc' = [pc EXCEPT ![r] = "done"]
               /\ UNCHANGED <<execLog, modelCalls>>
          ELSE /\ execLog' = [execLog EXCEPT ![r] =
                                 <<PrefixLogEntry(d.call, lastGeneratedImageBase64)>>]
               /\ modelCalls' = [modelCalls EXCEPT ![r] =
                                    IF d.call = "responses.create" THEN @ + 1 ELSE @]
               /\ pc' = [pc EXCEPT ![r] = "tool"]
               /\ UNCHANGED <<lastResponseId, res>>
    /\ UNCHANGED <<variant, history, apiKey, lastGeneratedImageBase64, toolCalls, idx,
                   conversationInput, finalImageBase64, startResponseId, startImage,
                   secondText, message, previous_response_id, finalResponseId,
                   lastReturnedImage, imageWriter, idWriter, secondToolCalls>>

\* The image or vision call of the branch comes back with outcome (lines
\* 113-131, 147-165, 213-245, then 249-282): the branch finishes, the state
\* is updated and the response is sent; an error thrown out of the branch
\* reaches the outer catch block.
PrefixCallReturns(r, outcome) ==
    /\ pc[r] = "tool"
    /\ LET call == execLog[r][1].name
           b == PrefixBranchResult(call, outcome, currentResponseId[r],
                    [lastImage |-> lastGeneratedImageBase64,
                     lastResponseId |-> lastResponseId])
       IN /\ outcome \in PrefixOutcomes(call)
          /\ execLog' = [execLog EXCEPT ![r][1].outcome = outcome.kind,
                                        ![r][1].produced = b.image]
          /\ IF b.thrown
             THEN /\ res' = [res EXCEPT ![r] = Err500("<message>")]
                  /\ lastResponseId' = Null
                  /\ lastGeneratedImageBase64' = Null
                  /\ UNCHANGED finalImageBase64
             ELSE /\ res' = [res EXCEPT ![r] = Ok200(b.text, b.image)]
                  /\ lastResponseId' = PrefixFinalId(b.text, b.image, currentResponseId[r],
                                                     b.lastResponseId)
                  /\ lastGeneratedImageBase64' = b.lastImage
                  /\ finalImageBase64' = [finalImageBase64 EXCEPT ![r] = b.image]
    /\ pc' = [pc EXCEPT ![r] = "done"]
    /\ UNCHANGED <<variant, history, apiKey, toolCalls, idx, conversationInput,
                   currentResponseId, startResponseId, startImage, modelCalls, firstText,
                   secondText, message, previous_response_id, finalResponseId,
                   lastReturnedImage, imageWriter, idWriter, secondToolCalls>>

\* The process of the prefix-signalling server has started; the turn-start
\* history is kept.
InitPrefix ==
    /\ variant = "prefix"
    /\ history = TRUE
    /\ apiKey \in BOOLEAN
    /\ lastResponseId = Null
    /\ lastGeneratedImageBase64 = Null
    /\ pc = [r \in Reqs |-> "idle"]
    /\ toolCalls = [r \in Reqs |-> <<>>]
    /\ idx = [r \in Reqs |-> 0]
    /\ conversationInput = [r \in Reqs |-> <<>>]
    /\ finalImageBase64 = [r \in Reqs |-> Null]
    /\ currentResponseId = [r \in Reqs |-> Null]
    /\ res = [r \in Reqs |-> NoResponse]
    /\ startResponseId = [r \in Reqs |-> Null]
    /\ startImage = [r \in Reqs |-> Null]
    /\ execLog = [r \in Reqs |-> <<>>]
    /\ modelCalls = [r \in Reqs |-> 0]
    /\ firstText = [r \in Reqs |-> Undefined]
    /\ secondText = [r \in Reqs |-> Undefined]
    /\ message = [r \in Reqs |-> ""]
    /\ previous_response_id = [r \in Reqs |-> Null]
    /\ finalResponseId = [r \in Reqs |-> Null]
    /\ lastReturnedImage = Null
    /\ imageWriter = 0
    /\ idWriter = 0
    /\ secondToolCalls = [r \in Reqs |-> <<>>]

\* One request at a time, with every reply text and every outcome of the
\* image and vision calls.
NextPrefix ==
    \E r \in Serving :
        \/ \E m \in Messages : PrefixReceive(r, m)
        \/ PrefixFirstCallFails(r)
        \/ \E id \in PrefixIds, reply \in PrefixReplies : PrefixFirstCallReturns(r, id, reply)
        \/ \E outcome \in ImageOutcomes \cup VisionOutcomes : PrefixCallReturns(r, outcome)
        \/ Close(r)

SpecPrefix == InitPrefix /\ [][NextPrefix]_vars

\* ===================================================================
\* Properties
\* ===================================================================
Responded(r, status) == pc[r] = "done" /\ res[r].status = status

\* the turn of r went down the HasTools path
HasTools(r) == Len(toolCalls[r]) > 0

Maximum(S) == CHOOSE x \in S : \A y \in S : y <= x

\* positions of execLog entries before j whose executor returned image data
ProducedBefore(log, j) == {k \in 1..(j - 1) : log[k].produced # Null}

\* the texts of the function_call_output entries of conv that carry call_id
OutputsOf(conv, id) ==
    {conv[k].output : k \in {n \in 1..Len(conv) :
        conv[n].type = "function_call_output" /\ conv[n].call_id = id}}

\* C1: whenever the first or the second model call of a turn fails, the
\* turn ends with a 500 response carrying the error detail and the
\* conversation state is empty (lastResponseId and lastGeneratedImageBase64
\* both cleared).
C1_ModelCallFailureResetsState ==
    \A r \in Reqs :
        (pc[r] = "done" /\ res[r].details = "model call failed")
        => /\ res[r].status = 500
           /\ lastResponseId = Null
           /\ lastGeneratedImageBase64 = Null

\* C2: a turn that ends in a 500 response leaves in the conversation state
\* no value it wrote: lastResponseId and lastGeneratedImageBase64 are what
\* they were when the turn began, and no result of the turn was stored.
C2_FailedTurnWritesNothing ==
    \A r \in Reqs :
        Responded(r, 500)
        => /\ lastResponseId = startResponseId[r]
           /\ lastGeneratedImageBase64 = startImage[r]
           /\ finalImageBase64[r] = Null

\* C3: an edit_image or analyze_image executor that runs after an
\* image-producing invocation of the same turn receives, as currentImage,
\* the image of the latest such invocation (not the image stored before the
\* turn began).
C3_LaterInvocationSeesFreshImage ==
    \A r \in Reqs :
        \A j \in 1..Len(execLog[r]) :
            (execLog[r][j].name \in {"edit_image", "analyze_image"}
               /\ ProducedBefore(execLog[r], j) # {})
            => execLog[r][j].currentImage =
                   execLog[r][Maximum(ProducedBefore(execLog[r], j))].produced

\* A turn [generate_image, analyze_image] whose generated image differs from
\* the image stored before the turn, the analysis having called the vision API.
C3_Witness ==
    \E r \in Reqs :
        /\ Len(execLog[r]) = 2
        /\ execLog[r][1].name = "generate_image"
        /\ execLog[r][1].produced # Null
        /\ execLog[r][2].name = "analyze_image"
        /\ execLog[r][2].api
        /\ startImage[r] # Null
        /\ startImage[r] # execLog[r][1].produced
        /\ execLog[r][2].currentImage = execLog[r][1].produced

\* The texts by which an executor or the orchestrator reports a failure.
ErrorTexts ==
    {"Error generating image: <message>", "Error generating image.",
     "Image generated, but only URL available: <url>",
     "Error: No image available to edit. Please generate one first.",
     "No image available to edit.", "Error editing image: <message>",
     "Error: No image available to analyze. Please generate or edit one first.",
     "No image available to analyze.", "Error analyzing image: <message>",
     "Error parsing arguments: <message>", "Error: Invalid arguments format for <name>.",
     "Unknown tool: <name>"}

\* An executor run that failed: a generation or an edit that returned no
\* image, or an edit or an analysis that had no image to work on.
Failed(e) ==
    \/ e.name \in {"generate_image", "edit_image"} /\ e.produced = Null
    \/ e.name \in {"edit_image", "analyze_image"} /\ e.currentImage = Null

\* C4: a failure inside a tool execution never aborts the turn (build of
\* chatController.js): the second model call is issued after all
\* invocations were processed, and every failure appears as an error text
\* in the input of that call.
C4_ToolFailureNeverAbortsTurn ==
    \A r \in Reqs :
        (variant = "chatController" /\ HasTools(r))
        => /\ pc[r] = "done" => res[r].details # "TypeError"
           /\ modelCalls[r] = 2
              => /\ Len(conversationInput[r]) = 1 + 2 * Len(toolCalls[r])
                 /\ \A j \in 1..Len(execLog[r]) :
                       Failed(execLog[r][j])
                       => /\ OutputsOf(conversationInput[r], execLog[r][j].call_id) # {}
                          /\ OutputsOf(conversationInput[r], execLog[r][j].call_id)
                                \subseteq ErrorTexts

\* C5: no image tool executor ever propagates an exception to the
\* orchestrator (no turn ends in the catch block because an executor threw).
C5_ExecutorsNeverThrow ==
    \A r \in Reqs : ~(pc[r] = "done" /\ res[r].details = "TypeError")

\* a well-formed invocation of one of the three image tools
ValidCall(toolCall) ==
    /\ toolCall.name \in {"generate_image", "edit_image", "analyze_image"}
    /\ toolCall.arguments = "object"

Executed(r, id) == \E k \in 1..Len(execLog[r]) : execLog[r][k].call_id = id

\* C6: when an invocation with unparseable arguments is followed in the
\* same turn by a valid one, no executor runs for the malformed one, the
\* valid one is executed, and the input of the second model call holds a
\* result for both (the parse error text for the malformed one).
C6_MalformedIsolated ==
    \A r \in Reqs :
        modelCalls[r] = 2
        => \A i, j \in 1..Len(toolCalls[r]) :
              (i < j /\ toolCalls[r][i].arguments = "malformed" /\ ValidCall(toolCalls[r][j]))
              => /\ ~Executed(r, i)
                 /\ Executed(r, j)
                 /\ OutputsOf(conversationInput[r], i) = {ParseErrorText(variant)}
                 /\ Cardinality(OutputsOf(conversationInput[r], j)) = 1

\* The second call went out for a turn [malformed, valid] whose valid
\* invocation called its API.
C6_Witness ==
    \E r \in Reqs :
        /\ modelCalls[r] = 2
        /\ Len(toolCalls[r]) = 2
        /\ toolCalls[r][1].arguments = "malformed"
        /\ ValidCall(toolCalls[r][2])
        /\ Len(execLog[r]) = 1
        /\ execLog[r][1].call_id = 2
        /\ execLog[r][1].api

\* C7 as stated: on the NoTools path the 200 response's text equals the
\* assistant text of the first call, its image is null, and no executor and
\* no second model call is run.
C7_NoToolsTextIsFirstText ==
    \A r \in Reqs :
        (Responded(r, 200) /\ ~HasTools(r))
        => /\ res[r].assistantResponse = firstText[r]
           /\ res[r].imageBase64 = Null
           /\ execLog[r] = <<>>
           /\ modelCalls[r] = 1

\* C7 amended: the text is the first call's assistant text when that text
\* is present and not empty, and the fixed sentence "Sorry, I couldn't
\* generate a response." otherwise; image null, no executor, no second call.
C7_NoToolsTextOrFallback ==
    \A r \in Reqs :
        (Responded(r, 200) /\ ~HasTools(r))
        => /\ firstText[r] \notin {Undefined, ""}
                => res[r].assistantResponse = firstText[r]
           /\ firstText[r] \in {Undefined, ""}
                => res[r].assistantResponse = "Sorry, I couldn't generate a response."
           /\ res[r].imageBase64 = Null
           /\ execLog[r] = <<>>
           /\ modelCalls[r] = 1

\* A NoTools turn answered 200 whose first response had an empty text.
C7_Witness ==
    \E r \in Reqs :
        /\ Responded(r, 200)
        /\ ~HasTools(r)
        /\ firstText[r] = ""
        /\ res[r].assistantResponse = "Sorry, I couldn't generate a response."

AnyProduced(log) == \E k \in 1..Len(log) : log[k].produced # Null
LastProduced(log) == log[Maximum(ProducedBefore(log, Len(log) + 1))].produced

\* C8: with no other request running, once a tool result of the turn
\* carried image data, the image to return and lastGeneratedImageBase64 are
\* the image of the last image-producing invocation, and a 200 response
\* returns it.
C8_ProducedImageReturnedAndStored ==
    \A r \in Reqs :
        AnyProduced(execLog[r])
        => LET image == LastProduced(execLog[r])
           IN /\ finalImageBase64[r] = image
              /\ lastGeneratedImageBase64 = image
              /\ Responded(r, 200) => res[r].imageBase64 = image

\* A 200 response of a turn with two image-producing invocations that
\* returned different images, an older image having been stored before.
C8_Witness ==
    \E r \in Reqs :
        /\ Responded(r, 200)
        /\ Len(execLog[r]) = 2
        /\ execLog[r][1].produced # Null
        /\ execLog[r][2].produced # Null
        /\ execLog[r][1].produced # execLog[r][2].produced
        /\ startImage[r] # Null
        /\ res[r].imageBase64 = execLog[r][2].produced
        /\ lastGeneratedImageBase64 = execLog[r][2].produced

NoImageToEditText(v) ==
    IF v = "server" THEN "No image available to edit."
    ELSE "Error: No image available to edit. Please generate one first."

\* C9: an edit_image invoked when no image is stored does not call the
\* image-edit API, yields the no-image error text with no image, and that
\* text is in the input of the second model call.
C9_EditWithoutImage ==
    \A r \in Reqs :
        \A j \in 1..Len(execLog[r]) :
            (execLog[r][j].name = "edit_image" /\ execLog[r][j].currentImage = Null)
            => /\ ~execLog[r][j].api
               /\ execLog[r][j].produced = Null
               /\ OutputsOf(conversationInput[r], execLog[r][j].call_id)
                     = {NoImageToEditText(variant)}

\* The second call went out for a turn whose edit_image found no image.
C9_Witness ==
    \E r \in Reqs :
        /\ pc[r] = "second"
        /\ \E j \in 1..Len(execLog[r]) :
              /\ execLog[r][j].name = "edit_image"
              /\ execLog[r][j].currentImage = Null
              /\ NoImageToEditText(variant) \in
                    OutputsOf(conversationInput[r], execLog[r][j].call_id)

\* the turn ran analyze_image on a stored image
AnalyzedImage(r) ==
    \E j \in 1..Len(execLog[r]) :
        execLog[r][j].name = "analyze_image" /\ execLog[r][j].currentImage # Null

\* C10 as stated: every turn invoking analyze_image with an image present
\* is answered with a populated text and a null image.
C10_AnalyzeTurnReturnsTextOnly ==
    \A r \in Reqs :
        (Responded(r, 200) /\ AnalyzedImage(r))
        => /\ res[r].assistantResponse \notin {Undefined, ""}
           /\ res[r].imageBase64 = Null

\* C10 amended: the image is null when no generate_image or edit_image of
\* the same turn returned image data; the text is populated in every case.
C10_AnalyzeOnlyTurnReturnsTextOnly ==
    \A r \in Reqs :
        (Responded(r, 200) /\ AnalyzedImage(r))
        => /\ res[r].assistantResponse \notin {Undefined, ""}
           /\ (\A j \in 1..Len(execLog[r]) :
                  execLog[r][j].name \in {"generate_image", "edit_image"}
                  => execLog[r][j].produced = Null)
              => res[r].imageBase64 = Null

\* A turn whose only invocation analysed a stored image and was answered 200.
C10_Witness ==
    \E r \in Reqs :
        /\ Responded(r, 200)
        /\ Len(toolCalls[r]) = 1
        /\ AnalyzedImage(r)
        /\ execLog[r][1].api
        /\ lastGeneratedImageBase64 # Null
        /\ res[r].imageBase64 = Null

\* C11: the first model call of every turn carries, as continuation
\* context, the lastResponseId stored when the turn began (the value
\* written by the most recent successfully completed turn, or none).
C11_FirstCallCarriesLastTurnId ==
    \A r \in Reqs :
        modelCalls[r] >= 1 => previous_response_id[r] = startResponseId[r]

\* C12 as stated: on the HasTools path the text returned is the assistant
\* text of the second model call, and lastResponseId is the identifier of
\* the second response.
C12_HasToolsTextIsSecondText ==
    \A r \in Reqs :
        (Responded(r, 200) /\ HasTools(r))
        => /\ res[r].assistantResponse = secondText[r]
           /\ lastResponseId = finalResponseId[r]

\* C12 amended: the text is the second call's assistant text when that text
\* is present and not empty, and the fixed sentence "Sorry, I couldn't
\* process the results of the tool call." otherwise; lastResponseId is the
\* identifier of the second response.
C12_HasToolsTextOrFallback ==
    \A r \in Reqs :
        (Responded(r, 200) /\ HasTools(r))
        => /\ secondText[r] \notin {Undefined, ""}
                => res[r].assistantResponse = secondText[r]
           /\ secondText[r] \in {Undefined, ""}
                => res[r].assistantResponse =
                       "Sorry, I couldn't process the results of the tool call."
           /\ lastResponseId = finalResponseId[r]

\* A HasTools turn answered 200 with the second call's text, the two
\* responses of the turn having different identifiers.
C12_Witness ==
    \E r \in Reqs :
        /\ Responded(r, 200)
        /\ HasTools(r)
        /\ secondText[r] = "assistant text"
        /\ res[r].assistantResponse = "assistant text"
        /\ finalResponseId[r] # currentResponseId[r]
        /\ lastResponseId = finalResponseId[r]

\* C13: after a successful turn on the NoTools path, lastResponseId is the
\* identifier of the first call's response and lastGeneratedImageBase64 is
\* what it was before the turn.
C13_NoToolsStateUpdate ==
    \A r \in Reqs :
        (Responded(r, 200) /\ ~HasTools(r))
        => /\ lastResponseId = currentResponseId[r]
           /\ lastGeneratedImageBase64 = startImage[r]

\* A NoTools turn answered 200 that began with an image and another
\* identifier stored.
C13_Witness ==
    \E r \in Reqs :
        /\ Responded(r, 200)
        /\ ~HasTools(r)
        /\ startImage[r] # Null
        /\ startResponseId[r] # Null
        /\ startResponseId[r] # currentResponseId[r]
        /\ lastResponseId = currentResponseId[r]
        /\ lastGeneratedImageBase64 = startImage[r]

\* C14: with no other request running, lastResponseId is not written
\* between the start of a turn and the return of its last model call: while
\* the first call, an executor's call or the second call is pending it has
\* the value it had when the turn began.
C14_LastTurnIdStableMidTurn ==
    \A r \in Reqs :
        pc[r] \in {"first", "tool", "second"} => lastResponseId = startResponseId[r]

\* The second call is pending in a turn that began with an identifier
\* stored, the first response carrying another one.
C14_Witness ==
    \E r \in Reqs :
        /\ pc[r] = "second"
        /\ execLog[r] # <<>>
        /\ startResponseId[r] # Null
        /\ currentResponseId[r] # startResponseId[r]
        /\ lastResponseId = startResponseId[r]

\* C15: in every reachable state, overlapping requests included,
\* lastGeneratedImageBase64 is absent (no executor call has returned image
\* data yet) or is the image returned by the most recent executor call that
\* completed with image data.
C15_LastImageIsMostRecent ==
    lastGeneratedImageBase64 = lastReturnedImage

\* Two overlapping turns have each got an image from an executor; the one
\* stored is the later one, which differs from the earlier one.
C15_Witness ==
    \E r, q \in Reqs :
        /\ r # q
        /\ pc[r] \in {"tool", "second"}
        /\ pc[q] \in {"tool", "second"}
        /\ finalImageBase64[r] # Null
        /\ finalImageBase64[q] # Null
        /\ finalImageBase64[r] # finalImageBase64[q]
        /\ imageWriter = q
        /\ lastGeneratedImageBase64 = finalImageBase64[q]

\* the handler of r has finished without touching the conversation state
\* and without any external call
NothingDone(r) ==
    /\ pc[r] = "done"
    /\ modelCalls[r] = 0
    /\ execLog[r] = <<>>
    /\ lastResponseId = startResponseId[r]
    /\ lastGeneratedImageBase64 = startImage[r]

\* C16 as stated: every request whose message is missing or empty is
\* answered 400, without any external call and with lastResponseId and
\* lastGeneratedImageBase64 unchanged.
C16_EmptyMessageIs400 ==
    \A r \in Reqs :
        (pc[r] # "idle" /\ message[r] = "")
        => /\ NothingDone(r)
           /\ res[r] = Err400

\* C16 amended: such a request is answered 400 when the API key is set and
\* 500 (key not set) when it is not; in both cases no external call is
\* issued and the state is unchanged.
C16_EmptyMessageRejected ==
    \A r \in Reqs :
        (pc[r] # "idle" /\ message[r] = "")
        => /\ NothingDone(r)
           /\ res[r] = IF apiKey THEN Err400 ELSE Err500NoKey

\* An empty message was answered 400 while an identifier and an image were
\* stored.
C16_Witness ==
    \E r \in Reqs :
        /\ Responded(r, 400)
        /\ message[r] = ""
        /\ lastResponseId # Null
        /\ lastGeneratedImageBase64 # Null
        /\ NothingDone(r)

\* the turn of r is one generate_image that returned an image, answered 200
GeneratedOnce(r) ==
    /\ Responded(r, 200)
    /\ Len(toolCalls[r]) = 1
    /\ toolCalls[r][1].name = "generate_image"
    /\ finalImageBase64[r] # Null

\* C17: two overlapping turns race on the shared state.  Each of the two
\* fields holds what the turn that wrote it last has written, whichever
\* turn that is, independently of the other field; so a state is reachable
\* (C17_Witness) that is the final state of neither serial order of the two
\* turns: lastGeneratedImageBase64 written by one turn and lastResponseId by
\* the other.
C17_EachFieldFromItsLastWriter ==
    /\ imageWriter # 0
       => lastGeneratedImageBase64 = finalImageBase64[imageWriter]
    /\ idWriter # 0
       => /\ Responded(idWriter, 200)
          /\ lastResponseId = IF HasTools(idWriter) THEN finalResponseId[idWriter]
                              ELSE currentResponseId[idWriter]

\* Two turns, each one generate_image, have both been answered 200 with
\* different images and different identifiers.  Either serial order ends with
\* the image and the identifier of the same turn; here the image is that of
\* one turn and the identifier that of the other.
C17_Witness ==
    \E r, q \in Reqs :
        /\ r # q
        /\ GeneratedOnce(r)
        /\ GeneratedOnce(q)
        /\ finalImageBase64[r] # finalImageBase64[q]
        /\ finalResponseId[r] # finalResponseId[q]
        /\ imageWriter = r
        /\ idWriter = q
        /\ lastGeneratedImageBase64 = finalImageBase64[r]
        /\ lastResponseId = finalResponseId[q]

\* the loop of r is suspended on an external call, has just ended, or was
\* left for the catch block (the context is final once the response is out)
Running(r) == pc[r] \in {"tool", "second"} \/ Responded(r, 500)

\* entry k of conv is the result of invocation i
IsOutputOf(conv, k, i) ==
    /\ k <= Len(conv)
    /\ conv[k].type = "function_call_output"
    /\ conv[k].call_id = i

\* C18: within a turn the executors run in the order the model returned
\* the invocations and one at a time: when the executor of an invocation is
\* started, the result of every earlier invocation is already in the
\* context, and while its external call is pending nothing follows the
\* invocation in the context and no later executor has been started.
C18_ExecutorsInOrderOneAtATime ==
    \A r \in Reqs :
        /\ Running(r)
           => \A j \in 1..Len(execLog[r]) :
                 LET id == execLog[r][j].call_id
                 IN /\ j > 1 => execLog[r][j - 1].call_id < id
                    /\ 2 * id <= Len(conversationInput[r])
                    /\ conversationInput[r][2 * id] = CallEntry(toolCalls[r][id])
                    /\ \A i \in 1..(id - 1) : IsOutputOf(conversationInput[r], 2 * i + 1, i)
        /\ pc[r] = "tool"
           => /\ execLog[r] # <<>>
              /\ execLog[r][Len(execLog[r])].call_id = idx[r]
              /\ Len(conversationInput[r]) = 2 * idx[r]

\* The executor of the second invocation is waiting for its external call,
\* the first one having made its own call and returned.
C18_Witness ==
    \E r \in Reqs :
        /\ pc[r] = "tool"
        /\ idx[r] = 2
        /\ Len(execLog[r]) = 2
        /\ execLog[r][1].api
        /\ execLog[r][2].api
        /\ IsOutputOf(conversationInput[r], 3, 1)
        /\ Len(conversationInput[r]) = 4

\* C19: the input of the second model call (the context when that call is
\* issued) is the user message followed,
\* for each invocation in returned order, by the invocation and then by
\* exactly one result entry with the same call_id: 1 + 2n entries for n
\* invocations, every invocation (executed, malformed or unknown) having
\* exactly one result.
C19_SecondCallInputShape ==
    \A r \in Reqs :
        pc[r] = "second"
        => /\ Len(conversationInput[r]) = 1 + 2 * Len(toolCalls[r])
           /\ conversationInput[r][1] = UserEntry
           /\ \A i \in 1..Len(toolCalls[r]) :
                 /\ conversationInput[r][2 * i] = CallEntry(toolCalls[r][i])
                 /\ IsOutputOf(conversationInput[r], 2 * i + 1, toolCalls[r][i].call_id)
                 /\ \A k \in 1..Len(conversationInput[r]) :
                       IsOutputOf(conversationInput[r], k, toolCalls[r][i].call_id)
                       => k = 2 * i + 1

\* The second call is pending for a turn of an unknown tool followed by a
\* valid invocation that made its external call: five entries.
C19_Witness ==
    \E r \in Reqs :
        /\ pc[r] = "second"
        /\ Len(toolCalls[r]) = 2
        /\ toolCalls[r][1].name = "other_tool"
        /\ ValidCall(toolCalls[r][2])
        /\ Executed(r, 2)
        /\ execLog[r][1].api
        /\ Len(conversationInput[r]) = 5
        /\ IsOutputOf(conversationInput[r], 3, 1)
        /\ IsOutputOf(conversationInput[r], 5, 2)

\* invocation i of r names none of the three image tools
UnknownTool(r, i) ==
    toolCalls[r][i].name \notin {"generate_image", "edit_image", "analyze_image"}

\* invocation i of r, once pushed, got no executor, has the result
\* "Unknown tool" right behind it, and the loop has gone on to the next
\* invocation, if there is one
ReportedUnknown(r, i) ==
    2 * i <= Len(conversationInput[r])
    => /\ ~Executed(r, i)
       /\ IsOutputOf(conversationInput[r], 2 * i + 1, i)
       /\ conversationInput[r][2 * i + 1].output = "Unknown tool: <name>"
       /\ i < Len(toolCalls[r])
          => /\ 2 * i + 2 <= Len(conversationInput[r])
             /\ conversationInput[r][2 * i + 2] = CallEntry(toolCalls[r][i + 1])

\* a turn of unknown tools only runs no executor and produces no image
OnlyUnknownNoImage(r) ==
    (HasTools(r) /\ \A i \in 1..Len(toolCalls[r]) : UnknownTool(r, i))
    => /\ execLog[r] = <<>>
       /\ finalImageBase64[r] = Null
       /\ pc[r] \in {"second", "done"}

\* C20 as stated: an invocation of a name outside the three image tools
\* runs no executor and no external call, yields a result stating that the
\* tool is unknown, with no image, and aborts neither the turn nor the
\* remaining invocations.
C20_UnknownToolReported ==
    \A r \in Reqs :
        /\ Running(r)
           => \A i \in 1..Len(toolCalls[r]) : UnknownTool(r, i) => ReportedUnknown(r, i)
        /\ OnlyUnknownNoImage(r)

\* C20 amended: the same for an invocation whose serialized arguments can
\* be parsed (when they cannot, the result is the parse error of C6, the
\* parse coming before the dispatch).
C20_UnknownToolWithParsedArguments ==
    \A r \in Reqs :
        /\ Running(r)
           => \A i \in 1..Len(toolCalls[r]) :
                 (UnknownTool(r, i) /\ ~ParseThrows(toolCalls[r][i].arguments))
                 => ReportedUnknown(r, i)
        /\ OnlyUnknownNoImage(r)

\* An unknown tool was reported and the executor of the next invocation is
\* waiting for its external call.
C20_Witness ==
    \E r \in Reqs :
        /\ pc[r] = "tool"
        /\ idx[r] = 2
        /\ UnknownTool(r, 1)
        /\ conversationInput[r][3].output = "Unknown tool: <name>"
        /\ Len(execLog[r]) = 1
        /\ execLog[r][1].call_id = 2

\* a text field that is populated: neither null/undefined nor empty
Populated(text) == text \notin {Undefined, ""}

\* C21 as stated: in every 200 response exactly one of assistantResponse
\* and imageBase64 is populated: when an image was produced in the turn the
\* text is null, otherwise the image is null and the text is populated.
C21_ExactlyOnePopulated ==
    \A r \in Reqs :
        Responded(r, 200)
        => IF AnyProduced(execLog[r])
           THEN ~Populated(res[r].assistantResponse) /\ res[r].imageBase64 # Null
           ELSE Populated(res[r].assistantResponse) /\ res[r].imageBase64 = Null

\* C21 amended: in every 200 response of the tool-call orchestrator the
\* text is populated, and the image is populated exactly when an invocation
\* of the turn returned image data (so a turn that produced an image
\* returns both fields populated).
C21_TextAlwaysImageIffProduced ==
    \A r \in Reqs :
        Responded(r, 200)
        => /\ Populated(res[r].assistantResponse)
           /\ res[r].imageBase64 # Null <=> AnyProduced(execLog[r])

\* A turn that produced an image is answered 200 with the image and with
\* the second call's text, an image having been stored before the turn.
C21_Witness ==
    \E r \in Reqs :
        /\ Responded(r, 200)
        /\ AnyProduced(execLog[r])
        /\ res[r].imageBase64 # Null
        /\ res[r].assistantResponse = "assistant text"
        /\ startImage[r] # Null

\* the executor runs of r that issued an external call for invocation id
ExternalCalls(r, id) ==
    {k \in 1..Len(execLog[r]) : execLog[r][k].call_id = id /\ execLog[r][k].api}

\* C22: nothing is retried.  In one turn the first model call is issued
\* once and the second at most once (only after the loop, never after a
\* failure), every invocation has at most one executor run and at most one
\* external call, and an external call that failed is not issued again: the
\* loop has moved past its invocation.
C22_NothingRetried ==
    \A r \in Reqs :
        /\ modelCalls[r] <= 2
        /\ pc[r] \in {"first", "tool"} => modelCalls[r] = 1
        /\ pc[r] = "second" => modelCalls[r] = 2
        /\ (pc[r] = "done" /\ modelCalls[r] = 2) => idx[r] = Len(toolCalls[r]) + 1
        /\ Len(execLog[r]) <= Len(toolCalls[r])
        /\ \A i \in 1..Len(toolCalls[r]) :
              /\ Cardinality(ExternalCalls(r, i)) <= 1
              /\ Cardinality({k \in 1..Len(execLog[r]) : execLog[r][k].call_id = i}) <= 1
              /\ (ExternalCalls(r, i) # {} /\ (pc[r] # "tool" \/ idx[r] # i)) => idx[r] > i

\* A generate_image whose external call failed was not run again: the
\* second model call went out with a single executor run in the turn, and
\* that call failed too, the turn ending in 500 with two model calls made.
C22_Witness ==
    \E r \in Reqs :
        /\ Responded(r, 500)
        /\ modelCalls[r] = 2
        /\ Len(toolCalls[r]) = 1
        /\ Len(execLog[r]) = 1
        /\ execLog[r][1].name = "generate_image"
        /\ execLog[r][1].api
        /\ execLog[r][1].produced = Null

\* run j of r's executors is a generate_image with usable arguments (the
\* arguments of any two such invocations are identical in the model)
GenerateRun(r, j) ==
    /\ execLog[r][j].name = "generate_image"
    /\ toolCalls[r][execLog[r][j].call_id].arguments = "object"

\* C23: no caching.  With one request at a time, every generate_image
\* invocation issues its own external generation call, also when a
\* generate_image with the same arguments was run before in the same turn or
\* when an earlier turn's image is stored; and once two of them in a turn
\* have both returned an image, lastGeneratedImageBase64 is the image of the
\* second one.
C23_GenerateNeverCached ==
    \A r \in Reqs :
        /\ \A j \in 1..Len(execLog[r]) : GenerateRun(r, j) => execLog[r][j].api
        /\ \A j, k \in 1..Len(execLog[r]) :
              (/\ j < k
               /\ k = Len(execLog[r])
               /\ GenerateRun(r, j) /\ execLog[r][j].produced # Null
               /\ GenerateRun(r, k) /\ execLog[r][k].produced # Null)
              => lastGeneratedImageBase64 = execLog[r][k].produced

\* A turn that began with an image stored ran generate_image twice; both
\* made their own call, the second returned another image than the first,
\* and the image stored is the second one's.
C23_Witness ==
    \E r \in Reqs :
        /\ startImage[r] # Null
        /\ Len(execLog[r]) = 2
        /\ GenerateRun(r, 1) /\ execLog[r][1].api
        /\ GenerateRun(r, 2) /\ execLog[r][2].api
        /\ execLog[r][1].produced # Null
        /\ execLog[r][2].produced # Null
        /\ execLog[r][1].produced # execLog[r][2].produced
        /\ lastGeneratedImageBase64 = execLog[r][2].produced

\* C24: generate_image returns the text "Image generated successfully."
\* only together with image data: whatever the external generation call
\* answered, a result without image data carries an error text.
C24_SuccessTextOnlyWithImage ==
    \A r \in Reqs :
        \A j \in 1..Len(execLog[r]) :
            (execLog[r][j].name = "generate_image" /\ execLog[r][j].produced = Null)
            => "Image generated successfully."
                  \notin OutputsOf(conversationInput[r], execLog[r][j].call_id)

\* the turn of r has reached Assemble on the path its first response chose
OnePath(r) ==
    IF HasTools(r)
    THEN /\ modelCalls[r] = 2
         /\ idx[r] = Len(toolCalls[r]) + 1
         /\ Len(conversationInput[r]) = 1 + 2 * Len(toolCalls[r])
         /\ Len(execLog[r]) <= Len(toolCalls[r])
         /\ \A j \in 1..Len(execLog[r]) :
               execLog[r][j].name = toolCalls[r][execLog[r][j].call_id].name
    ELSE /\ modelCalls[r] = 1
         /\ execLog[r] = <<>>
         /\ idx[r] = 0

\* the moves of one handler along the paths: nothing follows the second
\* call but the response, and the loop never goes back
PathStep(r) ==
    /\ pc[r] = "idle" => pc'[r] \in {"idle", "first", "done"}
    /\ pc[r] = "first" => pc'[r] \in {"first", "tool", "second", "done"}
    /\ pc[r] = "tool" => /\ pc'[r] \in {"tool", "second"}
                         /\ idx'[r] >= idx[r]
                         /\ modelCalls'[r] = IF pc'[r] = "second" THEN 2 ELSE 1
    /\ pc[r] = "second" => /\ pc'[r] \in {"second", "done"}
                           /\ execLog'[r] = execLog[r]
                           /\ conversationInput'[r] = conversationInput[r]
                           /\ modelCalls'[r] = modelCalls[r]
                           /\ idx'[r] = idx[r]
    /\ pc[r] = "done" => pc'[r] \in {"done", "idle"}

\* C25: every turn that reaches Assemble (a 200 response) has followed
\* exactly one of the two paths: one model call and no executor on the
\* NoTools path; on the HasTools path the loop over the first response's
\* invocations, then the second call, then the response.  The function_call
\* items of the second response are not executed: after the second call
\* there is no executor run, no third model call and no return to the loop.
C25_TurnFollowsOnePath ==
    /\ [](\A r \in Reqs : /\ modelCalls[r] <= 2
                          /\ Responded(r, 200) => OnePath(r))
    /\ [][\A r \in Reqs : PathStep(r)]_vars

\* A HasTools turn whose executor made its external call was answered 200
\* after two model calls, the second response carrying a tool invocation.
C25_Witness ==
    \E r \in Reqs :
        /\ Responded(r, 200)
        /\ HasTools(r)
        /\ secondToolCalls[r] # <<>>
        /\ modelCalls[r] = 2
        /\ Len(execLog[r]) = Len(toolCalls[r])
        /\ execLog[r][1].api

\* the image in the shared state when, in this step, the handler of r
\* starts its next executors: what the call that has just come back
\* returned, if it returned an image, and otherwise what the state holds,
\* whichever request wrote it
SharedImageAtStart(r) ==
    LET k == Len(execLog[r])
    IN IF pc[r] = "tool" /\ execLog'[r][k].produced # Null
       THEN execLog'[r][k].produced
       ELSE lastGeneratedImageBase64

\* C26: the image passed to edit_image or analyze_image is read from the
\* shared state when the executor is started, not when the turn began: with
\* overlapping requests it is the image another request has stored in the
\* meantime (C26_Witness is such an interleaving), so the response of one
\* request depends on what another one did.
C26_ExecutorGetsSharedImage ==
    [][\A r \in Reqs :
          \A j \in (Len(execLog[r]) + 1)..Len(execLog'[r]) :
              execLog'[r][j].name \in {"edit_image", "analyze_image"}
              => execLog'[r][j].currentImage = SharedImageAtStart(r)]_vars

\* Request r has started two executors on two different images and has
\* produced no image itself: the second image was stored by the other
\* request q, after r began and while r's first external call was pending.
C26_Witness ==
    \E r, q \in Reqs :
        /\ r # q
        /\ Len(execLog[r]) = 2
        /\ execLog[r][1].name \in {"edit_image", "analyze_image"}
        /\ execLog[r][2].name \in {"edit_image", "analyze_image"}
        /\ execLog[r][1].currentImage # Null
        /\ execLog[r][1].produced = Null
        /\ execLog[r][2].currentImage # Null
        /\ execLog[r][2].currentImage # execLog[r][1].currentImage
        /\ imageWriter = q
        /\ finalImageBase64[q] = execLog[r][2].currentImage

\* the handler of r is suspended on an external call
Pending(r) == pc[r] \in {"first", "tool", "second"}

\* a response has been sent to r: 200, 400 or 500
Answered(r) == res[r].status \in {200, 400, 500}

\* C27: provided every external call eventually returns or fails, every
\* request (each is served by the slot Serving) terminates with exactly one HTTP response, which is 200, 400 or
\* 500: a handler waiting for an external call eventually sends a response,
\* a handler has sent one exactly when it has finished, and a response once
\* sent is not followed by another one.
C27_EveryRequestAnsweredOnce ==
    /\ \A r \in Serving : Pending(r) ~> (pc[r] = "done" /\ Answered(r))
    /\ [](\A r \in Reqs : /\ pc[r] = "done" <=> Answered(r)
                          /\ ~Answered(r) => res[r] = NoResponse)
    /\ [][\A r \in Reqs : Answered(r) => (res'[r] = res[r] \/ pc'[r] = "idle")]_vars

\* A turn that waited for two executors' external calls and for both model
\* calls has been answered 200.
C27_Witness ==
    \E r \in Reqs :
        /\ Responded(r, 200)
        /\ modelCalls[r] = 2
        /\ Len(execLog[r]) = 2
        /\ execLog[r][1].api
        /\ execLog[r][2].api

\* in this step the handler of r goes through invocations of its loop and
\* none of their results carries image data: the external call that came
\* back, if one was pending, returned none (a result made without an
\* external call never carries any)
NoImageStep(r) ==
    /\ pc[r] \in {"first", "tool"}
    /\ pc[r] = "tool" => execLog'[r][Len(execLog[r])].produced = Null

\* C28: an invocation whose result carries no image data (a failed
\* generate_image or edit_image, any analyze_image, an unknown tool, a parse
\* failure) leaves lastGeneratedImageBase64 and the turn's image to return as
\* they were; the executors are functions of their arguments and the
\* conversation state is written by the orchestrator only.
C28_NoImageResultLeavesImages ==
    [][\A r \in Reqs :
          NoImageStep(r)
          => /\ lastGeneratedImageBase64' = lastGeneratedImageBase64
             /\ finalImageBase64'[r] = finalImageBase64[r]]_vars

\* After a generate_image that returned an image other than the one stored
\* before the turn, a second executor's external call came back without
\* image data: the stored image and the image to return are still the first
\* executor's.
C28_Witness ==
    \E r \in Reqs :
        /\ pc[r] = "second"
        /\ startImage[r] # Null
        /\ Len(execLog[r]) = 2
        /\ execLog[r][1].produced # Null
        /\ execLog[r][1].produced # startImage[r]
        /\ execLog[r][2].api
        /\ execLog[r][2].produced = Null
        /\ lastGeneratedImageBase64 = execLog[r][1].produced
        /\ finalImageBase64[r] = execLog[r][1].produced

\* C29: under any interleaving of overlapping requests, the imageBase64 of
\* a 200 response is the image of the last image-bearing result of the
\* request's own executors, and null when none of them returned an image:
\* never another request's image, never the image stored by an earlier turn.
C29_ResponseImageIsOwn ==
    \A r \in Reqs :
        Responded(r, 200)
        => res[r].imageBase64 = IF AnyProduced(execLog[r])
                                THEN LastProduced(execLog[r]) ELSE Null

\* Request r is answered 200 with the image its own executor returned,
\* while the state already holds another image, stored by request q after
\* r's executor had returned.
C29_Witness ==
    \E r, q \in Reqs :
        /\ r # q
        /\ Responded(r, 200)
        /\ AnyProduced(execLog[r])
        /\ res[r].imageBase64 = LastProduced(execLog[r])
        /\ imageWriter = q
        /\ lastGeneratedImageBase64 # res[r].imageBase64

\* C30: under any interleaving of overlapping requests, when an executor
\* run that returned an image is followed in the same turn by an edit_image
\* or analyze_image run (the next executor the turn starts), the follower
\* receives exactly that image: the image is stored and passed on without
\* the handler being suspended in between, so no other request's write can
\* come between the two.
C30_FollowerGetsOwnFreshImage ==
    \A r \in Reqs :
        \A j \in 1..(Len(execLog[r]) - 1) :
            (execLog[r][j].produced # Null
               /\ execLog[r][j + 1].name \in {"edit_image", "analyze_image"})
            => execLog[r][j + 1].currentImage = execLog[r][j].produced

\* Request q has stored an image of its own and is still running; request
\* r's generate_image has returned another image and its follower is waiting
\* for its external call, having been given r's image.
C30_Witness ==
    \E r, q \in Reqs :
        /\ r # q
        /\ pc[q] \in {"tool", "second"}
        /\ finalImageBase64[q] # Null
        /\ pc[r] = "tool"
        /\ Len(execLog[r]) = 2
        /\ execLog[r][1].produced # Null
        /\ execLog[r][1].produced # finalImageBase64[q]
        /\ execLog[r][2].name \in {"edit_image", "analyze_image"}
        /\ execLog[r][2].currentImage = execLog[r][1].produced

\* C31: when the API key is not configured, every request, one with a
\* missing message included (the key is checked before the message), is
\* answered with the 500 response that names the key, no external call is
\* issued (no model call, no executor run), and lastResponseId and
\* lastGeneratedImageBase64 are what they were when the request arrived.
C31_NoKeyIs500 ==
    \A r \in Reqs :
        (pc[r] # "idle" /\ ~apiKey)
        => /\ NothingDone(r)
           /\ res[r] = Err500NoKey
           /\ res[r].status = 500

\* Without the key, a request with no message has been answered 500.
C31_Witness ==
    \E r \in Reqs :
        /\ ~apiKey
        /\ Responded(r, 500)
        /\ message[r] = ""
        /\ res[r].error = "OPENAI_API_KEY is not set in .env file"
        /\ modelCalls[r] = 0

\* the assistant text of the model response the answer of r is taken from:
\* the first response when it carried no tool invocation, the second otherwise
RelevantText(r) == IF HasTools(r) THEN secondText[r] ELSE firstText[r]

\* the fixed sentence of each path
FallbackSentence(r) ==
    IF HasTools(r) THEN "Sorry, I couldn't process the results of the tool call."
    ELSE "Sorry, I couldn't generate a response."

\* C32: the assistantResponse of every 200 response is a non-empty string;
\* when the relevant model response (the first on the path without tool
\* invocations, the second on the path with them) has no assistant message
\* or no text, the fixed fallback sentence of that path is returned, never
\* null and never the empty string.
C32_TextNeverEmpty ==
    \A r \in Reqs :
        Responded(r, 200)
        => /\ res[r].assistantResponse # Undefined
           /\ res[r].assistantResponse # ""
           /\ ~Populated(RelevantText(r))
                => res[r].assistantResponse = FallbackSentence(r)

\* A turn with tool invocations whose second response had an empty text is
\* answered 200 with the fallback sentence of that path.
C32_Witness ==
    \E r \in Reqs :
        /\ Responded(r, 200)
        /\ HasTools(r)
        /\ secondText[r] = ""
        /\ res[r].assistantResponse = "Sorry, I couldn't process the results of the tool call."

\* the image, edit or vision call of the turn of r failed inside the try
\* block of its branch
LocalFailure(r) ==
    /\ Len(execLog[r]) = 1
    /\ execLog[r][1].outcome # "pending"
    /\ LocalCatch(execLog[r][1].name, [kind |-> execLog[r][1].outcome, image |-> Null])

\* the first model call of the turn of r was issued and no response to it
\* was read
FirstCallFailed(r) == pc[r] = "done" /\ modelCalls[r] >= 1 /\ firstText[r] = Undefined

\* C33: in the prefix-signalling server a failure of the image generation,
\* edit or analysis call that the model's reply asked for is handled in its
\* branch: the turn is answered 200 with that branch's error text and no
\* image, lastGeneratedImageBase64 keeps the value it had and lastResponseId
\* is the identifier of the first response.  A 500 "Failed to process"
\* answer comes only from an error outside the branches (the first model
\* call failing), and it leaves lastResponseId and lastGeneratedImageBase64
\* both null.
C33_LocalFailureIs200OuterIs500 ==
    \A r \in Reqs :
        /\ (pc[r] = "done" /\ LocalFailure(r))
            => /\ res[r].status = 200
               /\ res[r].assistantResponse = LocalErrorText(execLog[r][1].name)
               /\ res[r].imageBase64 = Null
               /\ lastGeneratedImageBase64 = startImage[r]
               /\ lastResponseId = currentResponseId[r]
        /\ (pc[r] = "done" /\ res[r].error = "Failed to process chat message")
            => FirstCallFailed(r)
        /\ FirstCallFailed(r)
            => /\ res[r].status = 500
               /\ res[r].error = "Failed to process chat message"
               /\ lastResponseId = Null
               /\ lastGeneratedImageBase64 = Null

\* An edit of the stored image failed: the turn is answered 200 with the
\* error text, the stored image is still the one the turn began with and
\* lastResponseId has moved on to the identifier of this turn's response.
C33_Witness ==
    \E r \in Reqs :
        /\ Responded(r, 200)
        /\ LocalFailure(r)
        /\ execLog[r][1].name = "images.edit"
        /\ res[r].assistantResponse =
               "Sorry, I encountered an error trying to edit the image: <message>"
        /\ startImage[r] # Null
        /\ lastGeneratedImageBase64 = startImage[r]
        /\ lastResponseId = currentResponseId[r]
        /\ lastResponseId # startResponseId[r]

====
